---- MODULE Spec2Model ----
(***************************************************************************)
(* BooksService (src/src/books/books.service.ts): the book search with its *)
(* result cache, its retry loop and its error classification, and the      *)
(* HTTPS agent its constructor builds from the configuration.              *)
(*                                                                         *)
(* Every searchBooks call is a logical task c with a control point pc[c].  *)
(* One action is one turn of the event loop: the callback of an incoming   *)
(* request, of an upstream answer or of a timer, together with the promise *)
(* continuations it resolves, which run before the next turn.              *)
(***************************************************************************)
EXTENDS Integers, Sequences, FiniteSets, TLC

(***************************************************************************)
(* Program constants.                                                      *)
(***************************************************************************)
cacheTtlMs == 60000
maxResultsCap == 40
maxAttempts == 3
initialDelayMs == 500

(***************************************************************************)
(* Bounds of the model.                                                    *)
(***************************************************************************)
MaxCalls == 2
MaxTicks == 2
MaxVolumes == 2

Calls == 1..MaxCalls

\* How far the wall clock may move between two steps of the event loop.
TickSteps == {1, 59999}

(***************************************************************************)
(* Values.  An optional value (a field that may be undefined) is a         *)
(* sequence of length 0 (absent) or 1 (present).                           *)
(***************************************************************************)
Absent == << >>

Some(v) == << v >>

\* a ?? b
Nullish(o, d) == IF o = Absent THEN d ELSE o[1]

\* Parameters a caller may leave out: the default applies when undefined.
UndefinedStr == "undefined"

UndefinedNum == -1

(***************************************************************************)
(* Upstream failures: what the awaited httpService.get may reject with.    *)
(* axios: isAxiosError(error); status: error.response?.status, 0 when      *)
(* there is no response; code: error.code, "none" when undefined.          *)
(***************************************************************************)
NoStatus == 0

NoCode == "none"

CertCodes ==
  {"SELF_SIGNED_CERT_IN_CHAIN", "DEPTH_ZERO_SELF_SIGNED_CERT",
   "UNABLE_TO_VERIFY_LEAF_SIGNATURE", "CERT_HAS_EXPIRED"}

Statuses == {NoStatus, 304, 401, 404, 429, 500, 502, 503}

Codes == {NoCode, "ECONNABORTED", "ERR_NETWORK", "ERR_BAD_REQUEST"} \cup CertCodes

AxiosFailures == [axios : {TRUE}, status : Statuses, code : Codes]

\* An error that is not an AxiosError: its status and code are never read.
OtherFailures == [axios : {FALSE}, status : {NoStatus}, code : {NoCode, "ECONNABORTED"}]

AllFailures == AxiosFailures \cup OtherFailures

NoError == [axios |-> FALSE, status |-> NoStatus, code |-> "no error"]

\* The TypeError mapResponse throws on a body that is null or undefined.
TypeError == [axios |-> FALSE, status |-> NoStatus, code |-> NoCode]

\* The error of the statement after the retry loop (line 127).
LoopExhausted == [axios |-> FALSE, status |-> NoStatus, code |-> NoCode]

(***************************************************************************)
(* Upstream payloads (GoogleBooksResponse).                                *)
(***************************************************************************)
EmptyInfo ==
  [title |-> Absent, authors |-> Absent, publisher |-> Absent,
   publishedDate |-> Absent, pageCount |-> Absent, description |-> Absent,
   imageLinks |-> Absent]

\* The volume of the retry test: only a title.
VolRefactoring ==
  [id |-> "2", volumeInfo |-> Some([EmptyInfo EXCEPT !.title = Some("Refactoring")])]

\* A volume with full metadata.
VolCleanCode ==
  [id |-> "1",
   volumeInfo |-> Some(
     [title |-> Some("Clean Code"), authors |-> Some(<<"Robert C. Martin">>),
      publisher |-> Some("Prentice Hall"), publishedDate |-> Some("2008"),
      pageCount |-> Some(464), description |-> Some("A Handbook"),
      imageLinks |-> Some([thumbnail |-> Some("thumb.jpg"),
                           smallThumbnail |-> Some("small.jpg")])])]

BodyEmpty == [totalItems |-> Some(0), items |-> Some(<< >>)]

BodyOne == [totalItems |-> Some(1), items |-> Some(<<VolRefactoring>>)]

BodyNoTotal == [totalItems |-> Absent, items |-> Some(<<VolCleanCode, VolRefactoring>>)]

BodyBare == [totalItems |-> Absent, items |-> Absent]

\* response.data: a body, or Absent for a null body.
AllPayloads == {Some(BodyEmpty), Some(BodyOne), Some(BodyNoTotal), Some(BodyBare), Absent}

NoResponse == [data |-> Absent, status |-> 0]

(***************************************************************************)
(* mapResponse (lines 144-165).                                            *)
(***************************************************************************)
\* Mutant of mapVolume: || in the place of ??, so that an empty string is
\* replaced by the default like an absent one.
mapVolumeFalsy(item) ==
  LET info == Nullish(item.volumeInfo, EmptyInfo)
      thumb == IF info.imageLinks = Absent THEN Absent
               ELSE info.imageLinks[1].thumbnail
      small == IF info.imageLinks = Absent THEN Absent
               ELSE info.imageLinks[1].smallThumbnail
  IN [id |-> item.id,
      title |-> IF info.title \in {Absent, Some("")} THEN "Unknown Title"
                ELSE info.title[1],
      authors |-> Nullish(info.authors, <<"Unknown Author">>),
      publisher |-> IF info.publisher \in {Absent, Some("")} THEN "Unknown Publisher"
                    ELSE info.publisher[1],
      publishedDate |-> IF info.publishedDate \in {Absent, Some("")} THEN "Unknown"
                        ELSE info.publishedDate[1],
      pageCount |-> Nullish(info.pageCount, 0),
      description |-> info.description,
      thumbnail |-> IF thumb \notin {Absent, Some("")} THEN thumb ELSE small]

mapVolume(item) ==
  LET info == Nullish(item.volumeInfo, EmptyInfo)
      thumb == IF info.imageLinks = Absent THEN Absent
               ELSE info.imageLinks[1].thumbnail
      small == IF info.imageLinks = Absent THEN Absent
               ELSE info.imageLinks[1].smallThumbnail
  IN [id |-> item.id,
      title |-> Nullish(info.title, "Unknown Title"),
      authors |-> Nullish(info.authors, <<"Unknown Author">>),
      publisher |-> Nullish(info.publisher, "Unknown Publisher"),
      publishedDate |-> Nullish(info.publishedDate, "Unknown"),
      pageCount |-> Nullish(info.pageCount, 0),
      description |-> info.description,
      thumbnail |-> IF thumb # Absent THEN thumb ELSE small]

mapResponse(data) ==
  LET volumes == Nullish(data.items, << >>)
      items == [i \in 1..Len(volumes) |-> mapVolume(volumes[i])]
  IN [totalItems |-> Nullish(data.totalItems, Len(items)), items |-> items]

\* data.items on a null body throws.
mapThrows(response) == response.data = Absent

NoResult == [totalItems |-> -1, items |-> << >>]

(***************************************************************************)
(* Error classification.                                                   *)
(***************************************************************************)
CertMessage == "SSL certificate validation failed for Google Books API. Provide a trusted CA bundle via GOOGLE_BOOKS_CA_FILE/GOOGLE_BOOKS_CA_CERT or disable validation (GOOGLE_BOOKS_REJECT_UNAUTHORIZED=false) in development environments."

BadRequestException(status) ==
  [exception |-> "BadRequestException", message |-> "Google Books API error", status |-> status]

InternalServerErrorException(message) ==
  [exception |-> "InternalServerErrorException", message |-> message, status |-> NoStatus]

NoException == [exception |-> "none", message |-> "", status |-> NoStatus]

isAxiosError(error) == error.axios

\* Mutant of isCertValidationError: the expired certificate left out.
isCertValidationErrorUnexpired(code) ==
  IF code = NoCode THEN FALSE ELSE code \in CertCodes \ {"CERT_HAS_EXPIRED"}

isCertValidationError(code) ==
  IF code = NoCode THEN FALSE ELSE code \in CertCodes

\* Mutants of shouldRetry: every client error retried; every server error retried.
shouldRetryClientErrors(error) ==
  IF ~isAxiosError(error) THEN FALSE
  ELSE \/ error.status >= 400 /\ error.status < 500
       \/ error.status = 503
       \/ error.code = "ECONNABORTED"
       \/ error.code = "ERR_NETWORK"

shouldRetryServerErrors(error) ==
  IF ~isAxiosError(error) THEN FALSE
  ELSE \/ error.status = 429
       \/ error.status >= 500
       \/ error.code = "ECONNABORTED"
       \/ error.code = "ERR_NETWORK"

shouldRetry(error) ==
  IF ~isAxiosError(error) THEN FALSE
  ELSE \/ error.status = 429
       \/ error.status = 503
       \/ error.code = "ECONNABORTED"
       \/ error.code = "ERR_NETWORK"

\* Mutants of handleError: the 429 branch missing; the code checked before the status.
handleErrorUnthrottled(error) ==
  IF isAxiosError(error)
  THEN LET status == error.status
       IN IF status # NoStatus /\ status >= 400 /\ status < 500 /\ status # 429
          THEN BadRequestException(status)
          ELSE IF status # NoStatus /\ status >= 500
          THEN InternalServerErrorException("Google Books service is unavailable")
          ELSE IF error.code = "ECONNABORTED"
          THEN InternalServerErrorException("Request to Google Books timed out")
          ELSE IF error.code = "ERR_NETWORK"
          THEN InternalServerErrorException("Unable to reach Google Books service")
          ELSE IF isCertValidationError(error.code)
          THEN InternalServerErrorException(CertMessage)
          ELSE InternalServerErrorException("Failed to search books")
  ELSE InternalServerErrorException("Failed to search books")

handleErrorCodeFirst(error) ==
  IF isAxiosError(error)
  THEN LET status == error.status
       IN IF error.code = "ECONNABORTED"
          THEN InternalServerErrorException("Request to Google Books timed out")
          ELSE IF error.code = "ERR_NETWORK"
          THEN InternalServerErrorException("Unable to reach Google Books service")
          ELSE IF isCertValidationError(error.code)
          THEN InternalServerErrorException(CertMessage)
          ELSE IF status # NoStatus /\ status >= 400 /\ status < 500 /\ status # 429
          THEN BadRequestException(status)
          ELSE IF status = 429
          THEN InternalServerErrorException("Too many requests to Google Books API")
          ELSE IF status # NoStatus /\ status >= 500
          THEN InternalServerErrorException("Google Books service is unavailable")
          ELSE InternalServerErrorException("Failed to search books")
  ELSE InternalServerErrorException("Failed to search books")

\* Mutant of handleError: the error caught is thrown on as it came.
handleErrorRethrown(error) ==
  [exception |-> "Error", message |-> error.code, status |-> error.status]

handleError(error) ==
  IF isAxiosError(error)
  THEN LET status == error.status
       IN IF status # NoStatus /\ status >= 400 /\ status < 500 /\ status # 429
          THEN BadRequestException(status)
          ELSE IF status = 429
          THEN InternalServerErrorException("Too many requests to Google Books API")
          ELSE IF status # NoStatus /\ status >= 500
          THEN InternalServerErrorException("Google Books service is unavailable")
          ELSE IF error.code = "ECONNABORTED"
          THEN InternalServerErrorException("Request to Google Books timed out")
          ELSE IF error.code = "ERR_NETWORK"
          THEN InternalServerErrorException("Unable to reach Google Books service")
          ELSE IF isCertValidationError(error.code)
          THEN InternalServerErrorException(CertMessage)
          ELSE InternalServerErrorException("Failed to search books")
  ELSE InternalServerErrorException("Failed to search books")

(***************************************************************************)
(* The request and its cache key.                                          *)
(***************************************************************************)
Min(a, b) == IF a < b THEN a ELSE b

\* The parameter defaults of searchBooks (lines 64-66).
withDefaults(r) ==
  [query |-> r.query,
   orderBy |-> IF r.orderBy = UndefinedStr THEN "relevance" ELSE r.orderBy,
   startIndex |-> IF r.startIndex = UndefinedNum THEN 0 ELSE r.startIndex,
   maxResults |-> IF r.maxResults = UndefinedNum THEN 10 ELSE r.maxResults]

\* Mutant of capMaxResults: the cap is not applied.
capMaxResultsUncapped(maxResults) == maxResults

capMaxResults(maxResults) == Min(maxResults, maxResultsCap)

\* Mutant of buildCacheKey: maxResults is left out of the key.
buildCacheKeyWithoutMaxResults(query, orderBy, startIndex, maxResults) ==
  <<query, orderBy, startIndex, 0>>

\* JSON.stringify({ query, orderBy, startIndex, maxResults }): the four values
\* in this order; two keys are equal exactly when the four values are.
buildCacheKey(query, orderBy, startIndex, maxResults) ==
  <<query, orderBy, startIndex, maxResults>>

\* cache.get(key) came back undefined.
NoEntry == -1

\* Date.now() - cached.timestamp of line 72.
entryAge(c, key, t) == IF key \in DOMAIN c THEN t - c[key].timestamp ELSE NoEntry

\* Mutants of cacheHit: the comparison turned round; the boundary included.
cacheHitWhenOld(c, key, t) ==
  key \in DOMAIN c /\ t - c[key].timestamp > cacheTtlMs

cacheHitAtTtl(c, key, t) ==
  key \in DOMAIN c /\ t - c[key].timestamp <= cacheTtlMs

\* The cache lookup of lines 70-72: is there an entry young enough to serve?
cacheHit(c, key, t) ==
  key \in DOMAIN c /\ t - c[key].timestamp < cacheTtlMs

\* Mutant of cacheSet: a store drops the entries that have expired.
cacheSetPruning(c, key, entry) ==
  [k \in {j \in DOMAIN c : entry.timestamp - c[j].timestamp < cacheTtlMs} \cup {key} |->
     IF k = key THEN entry ELSE c[k]]

\* Mutant of cacheSet: an entry that is there is kept.
cacheSetKeepingFirst(c, key, entry) ==
  IF key \in DOMAIN c THEN c
  ELSE [k \in DOMAIN c \cup {key} |-> IF k = key THEN entry ELSE c[k]]

\* Map.set
cacheSet(c, key, entry) ==
  [k \in DOMAIN c \cup {key} |-> IF k = key THEN entry ELSE c[k]]

(***************************************************************************)
(* The TLS trust builder (lines 206-222, 244-304).  A string is the        *)
(* sequence of its pieces: the characters of a flag, the lines and line    *)
(* breaks of a certificate, the name of a path and the blanks round it.    *)
(***************************************************************************)
Whitespace == {" ", "\t", "\n"}

RECURSIVE trimStart(_)
trimStart(s) ==
  IF s # << >> /\ Head(s) \in Whitespace THEN trimStart(Tail(s)) ELSE s

RECURSIVE trimEnd(_)
trimEnd(s) ==
  IF s # << >> /\ s[Len(s)] \in Whitespace
  THEN trimEnd(SubSeq(s, 1, Len(s) - 1))
  ELSE s

\* String.prototype.trim
trim(s) == trimEnd(trimStart(s))

toLowerChar(ch) ==
  CASE ch = "A" -> "a" [] ch = "E" -> "e" [] ch = "F" -> "f" [] ch = "L" -> "l"
    [] ch = "N" -> "n" [] ch = "O" -> "o" [] ch = "R" -> "r" [] ch = "S" -> "s"
    [] ch = "T" -> "t" [] ch = "U" -> "u" [] ch = "Y" -> "y" [] OTHER -> ch

\* String.prototype.toLowerCase
toLowerCase(s) == [i \in 1..Len(s) |-> toLowerChar(s[i])]

\* String.prototype.includes, piece by piece.
includes(s, piece) == \E i \in 1..Len(s) : s[i] = piece

\* What configService.get may give for GOOGLE_BOOKS_REJECT_UNAUTHORIZED.
UndefinedValue == [type |-> "undefined", bool |-> FALSE, str |-> << >>]

BooleanValue(b) == [type |-> "boolean", bool |-> b, str |-> << >>]

StringValue(s) == [type |-> "string", bool |-> FALSE, str |-> s]

NumberValue == [type |-> "number", bool |-> FALSE, str |-> << >>]

TrueWords == {<<"t", "r", "u", "e">>, <<"1">>, <<"y", "e", "s">>, <<"o", "n">>}

FalseWords == {<<"f", "a", "l", "s", "e">>, <<"0">>, <<"n", "o">>, <<"o", "f", "f">>}

\* normalizeBoolean (lines 206-222): Absent stands for undefined.
normalizeBoolean(value) ==
  IF value.type = "boolean" THEN Some(value.bool)
  ELSE IF value.type = "string"
  THEN LET normalized == toLowerCase(trim(value.str))
       IN IF normalized \in TrueWords THEN Some(TRUE)
          ELSE IF normalized \in FalseWords THEN Some(FALSE)
          ELSE Absent
  ELSE Absent

pemHeader == "-----BEGIN CERTIFICATE-----"

pemFooter == "-----END CERTIFICATE-----"

\* A CA bundle: a string as given, or a Buffer of the bytes read or decoded.
PemString(cert) == [kind |-> "string", from |-> "utf8", text |-> cert]

BufferFrom(text, encoding) == [kind |-> "Buffer", from |-> encoding, text |-> text]

\* parseCertificate (lines 295-304).
parseCertificate(cert) ==
  IF includes(cert, pemHeader) /\ includes(cert, pemFooter)
  THEN PemString(cert)
  ELSE BufferFrom(cert, "base64")

\* The one file of the file system, under the working directory.
caPath == <<"certs/ca.pem">>

\* resolve(process.cwd(), path) for a relative path: the file it names.
resolve(path) == path

\* readFileSync(path): the Buffer of the file's bytes, or the error thrown.
\* fs tells what is at caPath: a file with a certificate, an empty file,
\* nothing (ENOENT) or a file that may not be read (EACCES).
readFileSync(path, fs) ==
  IF path = caPath /\ fs = "file"
  THEN [threw |-> FALSE, code |-> "", value |-> Some(BufferFrom(<<"cert from file">>, "file"))]
  ELSE IF path = caPath /\ fs = "empty file"
  THEN [threw |-> FALSE, code |-> "", value |-> Some(BufferFrom(<< >>, "file"))]
  ELSE IF path = caPath /\ fs = "EACCES"
  THEN [threw |-> TRUE, code |-> "EACCES", value |-> Absent]
  ELSE [threw |-> TRUE, code |-> "ENOENT", value |-> Absent]

\* The truthiness of an optional string: defined and not empty.
truthyString(o) == o # Absent /\ o[1] # << >>

\* The truthiness of an optional bundle: a Buffer is truthy even when empty.
truthyBundle(o) == o # Absent /\ ~(o[1].kind = "string" /\ o[1].text = << >>)

\* What loadCertificateBundle gives: the bundle or undefined, the paths it
\* read, what it logged, and whether it threw.
Loaded(bundle, reads, logs) ==
  [threw |-> FALSE, bundle |-> bundle, reads |-> reads, logs |-> logs]

Thrown(reads) == [threw |-> TRUE, bundle |-> Absent, reads |-> reads, logs |-> << >>]

\* Mutants of loadCertificateBundle: the file before the inline certificate;
\* the read not guarded by try and catch.
loadCertificateBundleFileFirst(caFile, inlineCa, fs) ==
  IF truthyString(caFile) /\ trim(caFile[1]) # << >>
  THEN LET resolvedPath == resolve(trim(caFile[1]))
           read == readFileSync(resolvedPath, fs)
       IN IF read.threw
          THEN Loaded(Absent, <<resolvedPath>>, <<"error">>)
          ELSE Loaded(read.value, <<resolvedPath>>, << >>)
  ELSE IF truthyString(inlineCa) /\ trim(inlineCa[1]) # << >>
  THEN Loaded(Some(parseCertificate(trim(inlineCa[1]))), << >>, << >>)
  ELSE Loaded(Absent, << >>, << >>)

loadCertificateBundleUncaught(caFile, inlineCa, fs) ==
  IF truthyString(inlineCa) /\ trim(inlineCa[1]) # << >>
  THEN Loaded(Some(parseCertificate(trim(inlineCa[1]))), << >>, << >>)
  ELSE IF truthyString(caFile) /\ trim(caFile[1]) # << >>
  THEN LET resolvedPath == resolve(trim(caFile[1]))
           read == readFileSync(resolvedPath, fs)
       IN IF read.threw
          THEN Thrown(<<resolvedPath>>)
          ELSE Loaded(read.value, <<resolvedPath>>, << >>)
  ELSE Loaded(Absent, << >>, << >>)

\* loadCertificateBundle (lines 277-293): what readFileSync throws is caught
\* and logged, and undefined is returned.
loadCertificateBundle(caFile, inlineCa, fs) ==
  IF truthyString(inlineCa) /\ trim(inlineCa[1]) # << >>
  THEN Loaded(Some(parseCertificate(trim(inlineCa[1]))), << >>, << >>)
  ELSE IF truthyString(caFile) /\ trim(caFile[1]) # << >>
  THEN LET resolvedPath == resolve(trim(caFile[1]))
           read == readFileSync(resolvedPath, fs)
       IN IF read.threw
          THEN Loaded(Absent, <<resolvedPath>>, <<"error">>)
          ELSE Loaded(read.value, <<resolvedPath>>, << >>)
  ELSE Loaded(Absent, << >>, << >>)

\* HttpsAgentOptions: a key that was not set is Absent.
AgentOptions(rejectUnauthorized, ca) == [rejectUnauthorized |-> rejectUnauthorized, ca |-> ca]

\* What the constructor leaves: the agent or undefined, with the paths read and
\* the lines logged on the way; "aborted" when the constructor threw.
NotBuilt == [state |-> "unbuilt", agent |-> Absent, reads |-> << >>, logs |-> << >>]

Built(agent, reads, logs) ==
  [state |-> "built", agent |-> agent, reads |-> reads, logs |-> logs]

Aborted(reads) == [state |-> "aborted", agent |-> Absent, reads |-> reads, logs |-> << >>]

\* buildHttpsAgent (lines 244-275), as the constructor calls it (line 59).
buildHttpsAgent(cfg) ==
  LET shouldRejectUnauthorized == normalizeBoolean(cfg.rejectUnauthorized)
      loaded == loadCertificateBundle(cfg.caFile, cfg.caCert, cfg.fs)
      caBundle == loaded.bundle
      agentOptions ==
        AgentOptions(shouldRejectUnauthorized,
                     IF truthyBundle(caBundle) THEN caBundle ELSE Absent)
      logs ==
        IF agentOptions.rejectUnauthorized = Some(FALSE)
        THEN Append(loaded.logs, "warn")
        ELSE loaded.logs
  IN IF loaded.threw
     THEN Aborted(loaded.reads)
     ELSE IF truthyBundle(caBundle) \/ agentOptions.rejectUnauthorized = Some(FALSE)
     THEN Built(Some(agentOptions), loaded.reads, logs)
     ELSE Built(Absent, loaded.reads, logs)

\* The configuration of createModule() without options, as the tests of
\* searchBooks build the service.
DefaultConfig ==
  [rejectUnauthorized |-> UndefinedValue, caFile |-> Absent, caCert |-> Absent,
   fs |-> "ENOENT"]

(***************************************************************************)
(* State.                                                                  *)
(***************************************************************************)
VARIABLES
  cache,      \* this.cache: cache key -> [timestamp, data]
  now,        \* Date.now()
  ticks,      \* how often the clock was moved
  pc,         \* pc[c]: where call c stands
  args,       \* args[c]: the parameters of call c, defaults applied
  cappedMaxResults, \* cappedMaxResults[c]
  cacheKey,   \* cacheKey[c]
  attempt,    \* attempt[c] of fetchWithRetries
  delayMs,    \* delayMs[c] of fetchWithRetries
  response,   \* response[c]: what fetchWithRetries resolved with
  caught,     \* caught[c]: the error searchBooks caught
  result,     \* result[c]: what searchBooks returned
  raised,     \* raised[c]: what searchBooks threw
  sent,       \* sent[c]: the params of each httpService.get of call c
  waits,      \* waits[c]: the argument of each delay() of call c
  outcomes,   \* outcomes[c]: how each attempt of call c ended
  lookupAge,  \* lookupAge[c]: the age of the entry cache.get gave call c, -1 for none
  config,     \* what configService.get and the file system give the constructor
  httpsAgent, \* this.httpsAgent, with what the constructor read and logged
  request,    \* request[c]: the HTTP request or the DTO that brings call c about
  received,   \* received[c]: the arguments of each searchBooks invocation of call c
  toggl       \* the invocation of TogglService.findBookHours and its environment

vars ==
  <<cache, now, ticks, pc, args, cappedMaxResults, cacheKey, attempt, delayMs, response,
    caught, result, raised, sent, waits, outcomes, lookupAge, config, httpsAgent,
    request, received, toggl>>

NoArgs == [query |-> "", orderBy |-> "", startIndex |-> 0, maxResults |-> 0]

NoKey == <<"", "", 0, 0>>

\* A value of the query string or of a DTO field, with its JavaScript type.
UndefinedParam == [type |-> "undefined", text |-> ""]

StringParam(s) == [type |-> "string", text |-> s]

\* q given more than once: the query parser makes an array of it.
ArrayParam == [type |-> "array", text |-> ""]

\* No request: the call is made on the service directly.
NoRequest ==
  [via |-> "none", q |-> UndefinedParam, orderBy |-> UndefinedStr,
   startIndex |-> UndefinedNum, maxResults |-> UndefinedNum]

(***************************************************************************)
(* TogglService.findBookHours.  Strings are sequences of characters; hours *)
(* are counted in hundredths, the precision the service rounds to.         *)
(***************************************************************************)
MaxEntries == 2

\* !value of an environment variable: undefined or the empty string.
falsyEnv(value) == ~truthyString(value)

credentialsMissingTokenOnly(env) == falsyEnv(env.TOGGL_API_TOKEN)

\* !apiToken || !workspaceId
credentialsMissing(env) ==
  falsyEnv(env.TOGGL_API_TOKEN) \/ falsyEnv(env.TOGGL_WORKSPACE_ID)

\* The configuration of the one axios.get of an invocation.
togglRequest(env) ==
  [authorization |-> (IF env.TOGGL_API_TOKEN = Absent THEN <<"undefined">>
                      ELSE env.TOGGL_API_TOKEN[1]) \o <<":api_token">>,
   workspace_id |-> env.TOGGL_WORKSPACE_ID,
   project_ids |-> IF truthyString(env.TOGGL_PROJECT_ID)
                   THEN env.TOGGL_PROJECT_ID ELSE Absent,
   timeout |-> 10000]

\* String.prototype.includes with a string argument.
includesString(s, sub) ==
  \E i \in 0..(Len(s) - Len(sub)) : SubSeq(s, i + 1, i + Len(sub)) = sub

NullDescription == [type |-> "null", text |-> << >>]

StringDescription(s) == [type |-> "string", text |-> s]

\* A description that is truthy and has no toLowerCase.
NumberDescription == [type |-> "number", text |-> << >>]

\* !entry.description
falsyDescription(d) == d.type = "null" \/ (d.type = "string" /\ d.text = << >>)

\* What an entry adds to totalSeconds.
durationSeconds(entry, currentTimestampInSeconds) ==
  IF entry.duration >= 0 THEN entry.duration
  ELSE IF currentTimestampInSeconds + entry.duration > 0
       THEN currentTimestampInSeconds + entry.duration
       ELSE 0

entryMatches(entry, normalizedTitle) ==
  /\ ~falsyDescription(entry.description)
  /\ includesString(toLowerCase(entry.description.text), normalizedTitle)

RECURSIVE totalSeconds(_, _, _)
totalSeconds(entries, normalizedTitle, currentTimestampInSeconds) ==
  IF entries = << >> THEN 0
  ELSE (IF entryMatches(Head(entries), normalizedTitle)
        THEN durationSeconds(Head(entries), currentTimestampInSeconds)
        ELSE 0)
       + totalSeconds(Tail(entries), normalizedTitle, currentTimestampInSeconds)

\* The callback of forEach throws a TypeError on a truthy description
\* that is not a string.
entriesThrow(entries) ==
  \E i \in 1..Len(entries) : entries[i].description.type = "number"

\* Math.round((totalSeconds / 3600) * 100), in hundredths of an hour.
roundHours(seconds) == (seconds * 200 + 3600) \div 7200

\* Array.isArray(response.data) ? response.data : []
entriesOf(data) == IF data.isArray THEN data.entries ELSE << >>

UnauthorizedException(message) ==
  [exception |-> "UnauthorizedException", message |-> message, details |-> ""]

TogglServerError(message, details) ==
  [exception |-> "InternalServerErrorException", message |-> message,
   details |-> details]

NoTogglException == [exception |-> "none", message |-> "", details |-> ""]

NoTogglError ==
  [axios |-> FALSE, status |-> NoStatus, code |-> NoCode, selfSigned |-> FALSE,
   data |-> [type |-> "undefined", text |-> ""]]

\* JSON.stringify(data ?? {})
jsonStringify(data) == IF data.type = "undefined" THEN "{}" ELSE data.text

\* Mutant of togglHandleError: an error that is no AxiosError is thrown again.
togglHandleErrorRaw(error) ==
  IF error.axios /\ error.status = 401
  THEN UnauthorizedException("Credenciais do Toggl Track inválidas.")
  ELSE IF error.axios
       THEN TogglServerError("Não foi possível consultar o Toggl Track.", "")
       ELSE [exception |-> "Error", message |-> "error", details |-> ""]

\* The catch block of findBookHours (lines 94-145).
togglHandleError(error) ==
  IF error.axios /\ error.status = 401
  THEN UnauthorizedException("Credenciais do Toggl Track inválidas.")
  ELSE IF error.axios /\ error.status = 429
  THEN TogglServerError(
         "Limite de requisições do Toggl Track atingido. Tente novamente em instantes.", "")
  ELSE IF error.axios /\ error.status = 404
  THEN TogglServerError("Workspace do Toggl Track não encontrado.", "")
  ELSE IF /\ error.axios
          /\ \/ error.code = "DEPTH_ZERO_SELF_SIGNED_CERT"
             \/ error.code = "SELF_SIGNED_CERT_IN_CHAIN"
             \/ error.selfSigned
  THEN TogglServerError(
         "Falha na validação SSL ao consultar o Toggl Track.",
         IF error.data.type = "string" /\ error.data.text # ""
         THEN error.data.text ELSE "")
  ELSE IF error.axios /\ error.status = 400
  THEN TogglServerError(
         "Consulta inválida ao Toggl Track (400).",
         IF error.data.type = "string" THEN error.data.text
         ELSE jsonStringify(error.data))
  ELSE TogglServerError("Não foi possível consultar o Toggl Track.", "")

NotConfigured ==
  TogglServerError("Integração com Toggl Track não configurada.", "")

NoEnv ==
  [TOGGL_API_TOKEN |-> Absent, TOGGL_WORKSPACE_ID |-> Absent,
   TOGGL_PROJECT_ID |-> Absent]

\* No invocation of findBookHours.
NoToggl ==
  [pc |-> "idle", env |-> NoEnv, title |-> << >>, gets |-> << >>,
   caught |-> NoTogglError, hours |-> 0, raised |-> NoTogglException]

Init ==
  /\ cache = [k \in {} |-> 0]
  /\ now = 0
  /\ ticks = 0
  /\ pc = [c \in Calls |-> "idle"]
  /\ args = [c \in Calls |-> NoArgs]
  /\ cappedMaxResults = [c \in Calls |-> 0]
  /\ cacheKey = [c \in Calls |-> NoKey]
  /\ attempt = [c \in Calls |-> 0]
  /\ delayMs = [c \in Calls |-> 0]
  /\ response = [c \in Calls |-> NoResponse]
  /\ caught = [c \in Calls |-> NoError]
  /\ result = [c \in Calls |-> NoResult]
  /\ raised = [c \in Calls |-> NoException]
  /\ sent = [c \in Calls |-> << >>]
  /\ waits = [c \in Calls |-> << >>]
  /\ outcomes = [c \in Calls |-> << >>]
  /\ lookupAge = [c \in Calls |-> NoEntry]
  /\ config = DefaultConfig
  /\ httpsAgent = buildHttpsAgent(config)
  /\ request = [c \in Calls |-> NoRequest]
  /\ received = [c \in Calls |-> << >>]
  /\ toggl = NoToggl

\* An attempt's outcome, as the history keeps it.
Succeeded(data) == [ok |-> TRUE, data |-> data, error |-> NoError]

Failed(error) == [ok |-> FALSE, data |-> Absent, error |-> error]

(***************************************************************************)
(* fetchWithRetries (lines 94-128).                                        *)
(***************************************************************************)
\* The params of one httpService.get (line 109).
requestParams(a, maxResults) ==
  [q |-> a.query, orderBy |-> a.orderBy, startIndex |-> a.startIndex,
   maxResults |-> maxResults]

\* The loop condition of line 104.
loopContinues(att) == att < maxAttempts

\* Mutants of rethrows: one attempt too few; the attempts not counted.
rethrowsOneEarly(att, error) == att + 1 >= maxAttempts \/ ~shouldRetry(error)

rethrowsUncounted(att, error) == ~shouldRetry(error)

\* The catch block's decision (line 115): TRUE when the error is rethrown.
rethrows(att, error) == att >= maxAttempts \/ ~shouldRetry(error)

\* Mutant of nextDelay: the delay is not doubled.
nextDelayFlat(d) == d

\* The delay of the next wait (line 123).
nextDelay(d) == d * 2

\* searchBooks' catch block (lines 89-91): call c fails with the classified error.
Catch(c, error) ==
  /\ caught' = [caught EXCEPT ![c] = error]
  /\ raised' = [raised EXCEPT ![c] = handleError(error)]
  /\ pc' = [pc EXCEPT ![c] = "failed"]

\* The head of the loop, entered by call c with attempt = att and delayMs = d:
\* either the next httpService.get is issued, or the loop ends and line 127 throws.
LoopHead(c, att, d, a, maxResults) ==
  /\ delayMs' = [delayMs EXCEPT ![c] = d]
  /\ IF loopContinues(att)
     THEN /\ attempt' = [attempt EXCEPT ![c] = att + 1]
          /\ sent' = [sent EXCEPT ![c] = Append(@, requestParams(a, maxResults))]
          /\ pc' = [pc EXCEPT ![c] = "fetching"]
          /\ UNCHANGED <<caught, raised>>
     ELSE /\ attempt' = [attempt EXCEPT ![c] = att]
          /\ sent' = sent
          /\ Catch(c, LoopExhausted)

\* Mutant of SearchBooks: a lock per key; a call is not made while another
\* call for its key is in flight.
SearchBooksLocked(c, r) ==
  /\ pc[c] = "idle"
  /\ \A d \in Calls : d < c => pc[d] # "idle"
  /\ LET a == withDefaults(r)
         capped == capMaxResults(a.maxResults)
         key == buildCacheKey(a.query, a.orderBy, a.startIndex, capped)
     IN /\ \A d \in Calls : pc[d] \in {"fetching", "delaying"} => cacheKey[d] # key
        /\ args' = [args EXCEPT ![c] = a]
        /\ cappedMaxResults' = [cappedMaxResults EXCEPT ![c] = capped]
        /\ cacheKey' = [cacheKey EXCEPT ![c] = key]
        /\ lookupAge' = [lookupAge EXCEPT ![c] = entryAge(cache, key, now)]
        /\ IF cacheHit(cache, key, now)
           THEN /\ result' = [result EXCEPT ![c] = cache[key].data]
                /\ pc' = [pc EXCEPT ![c] = "done"]
                /\ UNCHANGED <<attempt, delayMs, sent, caught, raised>>
           ELSE /\ LoopHead(c, 0, initialDelayMs, a, capped)
                /\ result' = result
  /\ received' = [received EXCEPT ![c] = Append(@, r)]
  /\ UNCHANGED <<cache, now, ticks, response, waits, outcomes, config, httpsAgent,
                 request, toggl>>

\* Mutant of SearchBooks: a hit stores the entry again with the time of the hit.
SearchBooksRefreshing(c, r) ==
  /\ pc[c] = "idle"
  /\ \A d \in Calls : d < c => pc[d] # "idle"
  /\ LET a == withDefaults(r)
         capped == capMaxResults(a.maxResults)
         key == buildCacheKey(a.query, a.orderBy, a.startIndex, capped)
     IN /\ args' = [args EXCEPT ![c] = a]
        /\ cappedMaxResults' = [cappedMaxResults EXCEPT ![c] = capped]
        /\ cacheKey' = [cacheKey EXCEPT ![c] = key]
        /\ lookupAge' = [lookupAge EXCEPT ![c] = entryAge(cache, key, now)]
        /\ IF cacheHit(cache, key, now)
           THEN /\ result' = [result EXCEPT ![c] = cache[key].data]
                /\ pc' = [pc EXCEPT ![c] = "done"]
                /\ cache' = cacheSet(cache, key,
                                     [timestamp |-> now, data |-> cache[key].data])
                /\ UNCHANGED <<attempt, delayMs, sent, caught, raised>>
           ELSE /\ LoopHead(c, 0, initialDelayMs, a, capped)
                /\ UNCHANGED <<result, cache>>
  /\ received' = [received EXCEPT ![c] = Append(@, r)]
  /\ UNCHANGED <<now, ticks, response, waits, outcomes, config, httpsAgent,
                 request, toggl>>

(***************************************************************************)
(* searchBooks (lines 62-92), up to its first await: the cache lookup and, *)
(* on a miss, the first httpService.get.  Calls are numbered in the order  *)
(* in which they are made.                                                 *)
(***************************************************************************)
SearchBooks(c, r) ==
  /\ pc[c] = "idle"
  /\ \A d \in Calls : d < c => pc[d] # "idle"
  /\ LET a == withDefaults(r)
         capped == capMaxResults(a.maxResults)
         key == buildCacheKey(a.query, a.orderBy, a.startIndex, capped)
     IN /\ args' = [args EXCEPT ![c] = a]
        /\ cappedMaxResults' = [cappedMaxResults EXCEPT ![c] = capped]
        /\ cacheKey' = [cacheKey EXCEPT ![c] = key]
        /\ lookupAge' = [lookupAge EXCEPT ![c] = entryAge(cache, key, now)]
        /\ IF cacheHit(cache, key, now)
           THEN /\ result' = [result EXCEPT ![c] = cache[key].data]
                /\ pc' = [pc EXCEPT ![c] = "done"]
                /\ UNCHANGED <<attempt, delayMs, sent, caught, raised>>
           ELSE /\ LoopHead(c, 0, initialDelayMs, a, capped)
                /\ result' = result
  /\ received' = [received EXCEPT ![c] = Append(@, r)]
  /\ UNCHANGED <<cache, now, ticks, response, waits, outcomes, config, httpsAgent,
                 request, toggl>>

\* The awaited httpService.get of call c resolves: fetchWithRetries returns the
\* response and searchBooks maps it, stores the result and returns it (lines
\* 83-88); what mapResponse throws goes to the catch block.
UpstreamResolves(c, data) ==
  /\ pc[c] = "fetching"
  /\ response' = [response EXCEPT ![c] = [data |-> data, status |-> 200]]
  /\ outcomes' = [outcomes EXCEPT ![c] = Append(@, Succeeded(data))]
  /\ IF mapThrows(response'[c])
     THEN /\ Catch(c, TypeError)
          /\ UNCHANGED <<cache, result>>
     ELSE LET mapped == mapResponse(data[1])
          IN /\ cache' = cacheSet(cache, cacheKey[c], [timestamp |-> now, data |-> mapped])
             /\ result' = [result EXCEPT ![c] = mapped]
             /\ pc' = [pc EXCEPT ![c] = "done"]
             /\ UNCHANGED <<caught, raised>>
  /\ UNCHANGED <<now, ticks, args, cappedMaxResults, cacheKey, attempt, delayMs,
                 sent, waits, lookupAge,
                 config, httpsAgent, request, received, toggl>>

\* Mutant of UpstreamRejects: the failure of the first attempt is the one
\* classified.
UpstreamRejectsFirst(c, error) ==
  /\ pc[c] = "fetching"
  /\ outcomes' = [outcomes EXCEPT ![c] = Append(@, Failed(error))]
  /\ IF rethrows(attempt[c], error)
     THEN /\ Catch(c, outcomes'[c][1].error)
          /\ waits' = waits
     ELSE /\ waits' = [waits EXCEPT ![c] = Append(@, delayMs[c])]
          /\ pc' = [pc EXCEPT ![c] = "delaying"]
          /\ UNCHANGED <<caught, raised>>
  /\ UNCHANGED <<cache, now, ticks, args, cappedMaxResults, cacheKey, attempt,
                 delayMs, response, result, sent, lookupAge,
                 config, httpsAgent, request, received, toggl>>

\* Mutant of UpstreamRejects: the failure that ends the call is cached as an
\* empty result.
UpstreamRejectsCaching(c, error) ==
  /\ pc[c] = "fetching"
  /\ outcomes' = [outcomes EXCEPT ![c] = Append(@, Failed(error))]
  /\ IF rethrows(attempt[c], error)
     THEN /\ Catch(c, error)
          /\ waits' = waits
          /\ cache' = cacheSet(cache, cacheKey[c],
                               [timestamp |-> now, data |-> mapResponse(BodyEmpty)])
     ELSE /\ waits' = [waits EXCEPT ![c] = Append(@, delayMs[c])]
          /\ pc' = [pc EXCEPT ![c] = "delaying"]
          /\ UNCHANGED <<caught, raised, cache>>
  /\ UNCHANGED <<now, ticks, args, cappedMaxResults, cacheKey, attempt,
                 delayMs, response, result, sent, lookupAge,
                 config, httpsAgent, request, received, toggl>>

\* The awaited httpService.get of call c rejects: the catch block of lines
\* 114-124 rethrows to searchBooks' catch block, or starts the backoff wait.
UpstreamRejects(c, error) ==
  /\ pc[c] = "fetching"
  /\ outcomes' = [outcomes EXCEPT ![c] = Append(@, Failed(error))]
  /\ IF rethrows(attempt[c], error)
     THEN /\ Catch(c, error)
          /\ waits' = waits
     ELSE /\ waits' = [waits EXCEPT ![c] = Append(@, delayMs[c])]
          /\ pc' = [pc EXCEPT ![c] = "delaying"]
          /\ UNCHANGED <<caught, raised>>
  /\ UNCHANGED <<cache, now, ticks, args, cappedMaxResults, cacheKey, attempt,
                 delayMs, response, result, sent, lookupAge,
                 config, httpsAgent, request, received, toggl>>

\* Mutant of DelayElapsed: the wait holds the thread; the timer of call c does
\* not fire while another call is suspended.
DelayElapsedAlone(c) ==
  /\ pc[c] = "delaying"
  /\ \A d \in Calls \ {c} : pc[d] \notin {"fetching", "delaying"}
  /\ LoopHead(c, attempt[c], nextDelay(delayMs[c]), args[c], cappedMaxResults[c])
  /\ UNCHANGED <<cache, now, ticks, args, cappedMaxResults, cacheKey, response,
                 result, waits, outcomes, lookupAge,
                 config, httpsAgent, request, received, toggl>>

\* Mutant of DelayElapsed: the promise of delay() is never resolved.
DelayElapsedLost(c) ==
  /\ pc[c] = "delaying"
  /\ UNCHANGED vars

\* The timer of delay() fires: delayMs doubles and the loop goes round.  The
\* timer runs on the monotonic clock, not on Date.now(): the step reads no time.
DelayElapsed(c) ==
  /\ pc[c] = "delaying"
  /\ LoopHead(c, attempt[c], nextDelay(delayMs[c]), args[c], cappedMaxResults[c])
  /\ UNCHANGED <<cache, now, ticks, args, cappedMaxResults, cacheKey, response,
                 result, waits, outcomes, lookupAge,
                 config, httpsAgent, request, received, toggl>>

\* Time passes.  Date.now() is only ever compared with a stored timestamp, so the
\* time that passes before the first store is immaterial and is not modelled.
Tick(d) ==
  /\ ticks < MaxTicks
  /\ DOMAIN cache # {}
  /\ now' = now + d
  /\ ticks' = ticks + 1
  /\ UNCHANGED <<cache, pc, args, cappedMaxResults, cacheKey, attempt, delayMs,
                 response, caught, result, raised, sent, waits, outcomes, lookupAge,
                 config, httpsAgent, request, received, toggl>>

(***************************************************************************)
(* The constructor (lines 50-60): buildHttpsAgent is called once.          *)
(***************************************************************************)
Construct ==
  /\ httpsAgent = NotBuilt
  /\ httpsAgent' = buildHttpsAgent(config)
  /\ UNCHANGED <<cache, now, ticks, pc, args, cappedMaxResults, cacheKey, attempt,
                 delayMs, response, caught, result, raised, sent, waits, outcomes,
                 lookupAge, config, request, received, toggl>>

(***************************************************************************)
(* findBookHours, one action for each turn of the event loop.              *)
(***************************************************************************)
booksVars ==
  <<cache, now, ticks, pc, args, cappedMaxResults, cacheKey, attempt, delayMs, response,
    caught, result, raised, sent, waits, outcomes, lookupAge, config, httpsAgent,
    request, received>>

\* Lines 34-75: the credentials check, then the one axios.get.
FindBookHours ==
  /\ toggl.pc = "idle"
  /\ IF credentialsMissing(toggl.env)
     THEN toggl' = [toggl EXCEPT !.pc = "failed", !.raised = NotConfigured]
     ELSE toggl' = [toggl EXCEPT !.pc = "awaiting",
                                 !.gets = Append(@, togglRequest(toggl.env))]
  /\ UNCHANGED booksVars

\* Lines 77-93 and 147-148: the response is summed, or the summing throws
\* into the catch block.
TogglResolves(data) ==
  /\ toggl.pc = "awaiting"
  /\ LET entries == entriesOf(data)
         normalizedTitle == toLowerCase(trim(toggl.title))
     IN IF entriesThrow(entries)
        THEN toggl' = [toggl EXCEPT !.pc = "failed",
                                    !.raised = togglHandleError(NoTogglError)]
        ELSE toggl' = [toggl EXCEPT
                         !.pc = "done",
                         !.hours = roundHours(totalSeconds(entries, normalizedTitle,
                                                           now \div 1000))]
  /\ UNCHANGED booksVars

\* Lines 94-145: the rejection is classified and thrown.
TogglRejects(error) ==
  /\ toggl.pc = "awaiting"
  /\ toggl' = [toggl EXCEPT !.pc = "failed", !.caught = error,
                            !.raised = togglHandleError(error)]
  /\ UNCHANGED booksVars

(***************************************************************************)
(* The route GET /books/search: the validation pipe, then the controller.  *)
(***************************************************************************)
\* @IsNotEmpty(): the value is neither '' nor null nor undefined.
isNotEmpty(value) ==
  /\ value.type # "undefined"
  /\ ~(value.type = "string" /\ value.text = "")

\* @IsString(): typeof value is 'string'.
isString(value) == value.type = "string"

\* The messages of the constraints of SearchQueryDto that a query fails.
validate(query) ==
  (IF isNotEmpty(query.q) THEN {} ELSE {"q should not be empty"})
    \cup (IF isString(query.q) THEN {} ELSE {"q must be a string"})

\* whitelist: true keeps the decorated properties of SearchQueryDto, which
\* are q alone.
whitelist(query) ==
  [query EXCEPT !.orderBy = UndefinedStr, !.startIndex = UndefinedNum,
                !.maxResults = UndefinedNum]

\* What the validation pipe throws for a query that fails a constraint: the
\* response has status 400 and the messages of validate in its body.
ValidationFailure ==
  [exception |-> "BadRequestException", message |-> "Bad Request", status |-> 400]

\* The DTO the controller is handed: the piped query of an HTTP request, or
\* the object of a direct call.
searchQuery(req) == IF req.via = "http" THEN whitelist(req) ELSE req

controllerArgumentsSwapped(dto) ==
  [query |-> dto.q.text, orderBy |-> dto.orderBy,
   startIndex |-> dto.maxResults, maxResults |-> dto.startIndex]

\* The arguments of this.booksService.searchBooks(...).
controllerArguments(dto) ==
  [query |-> dto.q.text, orderBy |-> dto.orderBy,
   startIndex |-> dto.startIndex, maxResults |-> dto.maxResults]

\* The controller returns the promise of the service: the same value or the
\* same exception.
controllerOutcome(serviceOutcome) == serviceOutcome

\* BooksController.searchBooks called with a DTO.
ControllerSearchBooks(c) ==
  /\ request[c].via = "controller"
  /\ SearchBooks(c, controllerArguments(searchQuery(request[c])))

\* The pipe rejects the request before the controller runs.
Reject(c) ==
  /\ pc[c] = "idle"
  /\ \A d \in Calls : d < c => pc[d] # "idle"
  /\ pc' = [pc EXCEPT ![c] = "rejected"]
  /\ raised' = [raised EXCEPT ![c] = ValidationFailure]
  /\ UNCHANGED <<cache, now, ticks, args, cappedMaxResults, cacheKey, attempt,
                 delayMs, response, caught, result, sent, waits, outcomes,
                 lookupAge, config, httpsAgent, request, received, toggl>>

\* GET /books/search?q=...
HandleRequest(c) ==
  /\ request[c].via = "http"
  /\ IF validate(request[c]) # {}
     THEN Reject(c)
     ELSE SearchBooks(c, controllerArguments(searchQuery(request[c])))

(***************************************************************************)
(* Spec: concurrent calls over a shared cache and clock.                   *)
(***************************************************************************)
Request(q, o, s, m) == [query |-> q, orderBy |-> o, startIndex |-> s, maxResults |-> m]

Requests ==
  {Request("ddd", UndefinedStr, UndefinedNum, UndefinedNum),
   Request("ddd", "relevance", 0, 60)}

Failures ==
  {[axios |-> TRUE, status |-> 429, code |-> "ERR_BAD_REQUEST"],
   [axios |-> TRUE, status |-> 404, code |-> "ERR_BAD_REQUEST"]}

Payloads == {Some(BodyEmpty), Some(BodyOne)}

Next ==
  \/ \E c \in Calls, r \in Requests : SearchBooks(c, r)
  \/ \E c \in Calls, data \in Payloads : UpstreamResolves(c, data)
  \/ \E c \in Calls, error \in Failures : UpstreamRejects(c, error)
  \/ \E c \in Calls : DelayElapsed(c)
  \/ \E d \in TickSteps : Tick(d)

Spec == Init /\ [][Next]_vars

(***************************************************************************)
(* SpecFair: Spec with the environment's part stated.  Every upstream      *)
(* request is answered, by a response or by an error (the request carries  *)
(* a timeout of 5000 ms), and every timer set by delay() fires: while a    *)
(* call is suspended, the event that resumes a suspended call occurs.  A   *)
(* call takes a bounded number of such events, so this is no stronger than *)
(* assuming it call by call.  Nothing is assumed of the callers: no call   *)
(* need ever be made.                                                      *)
(***************************************************************************)
UpstreamAnswers(c) ==
  \/ \E data \in Payloads : UpstreamResolves(c, data)
  \/ \E error \in Failures : UpstreamRejects(c, error)

Resumes == \E c \in Calls : UpstreamAnswers(c) \/ DelayElapsed(c)

Fairness == WF_vars(Resumes)

\* The steps of Spec for the request of the cache test, with the clock moved
\* by a whole TTL at a time: every path of a call (a hit, a miss, an expired
\* entry, retries) is taken.
FairRequests == {Request("ddd", UndefinedStr, UndefinedNum, UndefinedNum)}

NextFair ==
  \/ \E c \in Calls, r \in FairRequests : SearchBooks(c, r)
  \/ \E c \in Calls : UpstreamAnswers(c)
  \/ \E c \in Calls : DelayElapsed(c)
  \/ Tick(cacheTtlMs)

SpecFair == Init /\ [][NextFair]_vars /\ Fairness

(***************************************************************************)
(* SpecRetry: one call, every upstream failure and payload.                *)
(***************************************************************************)
RetryRequests ==
  {Request("refactoring", UndefinedStr, UndefinedNum, UndefinedNum),
   Request("missing book", "newest", 0, 60)}

NextRetry ==
  \/ \E r \in RetryRequests : SearchBooks(1, r)
  \/ \E data \in AllPayloads : UpstreamResolves(1, data)
  \/ \E error \in AllFailures : UpstreamRejects(1, error)
  \/ DelayElapsed(1)

SpecRetry == Init /\ [][NextRetry]_vars

(***************************************************************************)
(* SpecKeys: calls made one after another, each awaited before the next,   *)
(* for one query asked with maxResults below, at and above the cap.        *)
(***************************************************************************)
KeyRequests ==
  {Request("ddd", "relevance", 0, 10),
   Request("ddd", "relevance", 0, 40),
   Request("ddd", "relevance", 0, 60)}

KeyFailures == {[axios |-> TRUE, status |-> 404, code |-> "ERR_BAD_REQUEST"]}

\* No call is awaiting its upstream request or its backoff timer.
NoneInFlight == \A d \in Calls : pc[d] \notin {"fetching", "delaying"}

NextKeys ==
  \/ \E c \in Calls, r \in KeyRequests : NoneInFlight /\ SearchBooks(c, r)
  \/ \E c \in Calls, data \in Payloads : UpstreamResolves(c, data)
  \/ \E c \in Calls, error \in KeyFailures : UpstreamRejects(c, error)
  \/ \E d \in TickSteps : Tick(d)

SpecKeys == Init /\ [][NextKeys]_vars

(***************************************************************************)
(* SpecTls: the constructor under every configuration: the switch as a     *)
(* boolean, a string, a number or nothing; the CA file and the inline      *)
(* certificate absent, blank, padded or given; the file there or not.      *)
(***************************************************************************)
RejectUnauthorizedValues ==
  {UndefinedValue, BooleanValue(TRUE), BooleanValue(FALSE), NumberValue,
   StringValue(<<"f", "a", "l", "s", "e">>),
   StringValue(<<"F", "A", "L", "S", "E">>),
   StringValue(<<" ", "N", "o", "\n">>),
   StringValue(<<"0">>),
   StringValue(<<"o", "f", "f">>),
   StringValue(<<"t", "r", "u", "e">>),
   StringValue(<<"\t", "T", "r", "u", "e">>),
   StringValue(<<"1">>),
   StringValue(<<"Y", "E", "S">>),
   StringValue(<<"o", "n">>),
   StringValue(<< >>),
   StringValue(<<"n", "o", "n", "e">>),
   StringValue(<<"f", "a", "l", " ", "s", "e">>)}

CaFileValues ==
  {Absent, Some(<< >>), Some(<<" ">>), Some(caPath),
   Some(<<" ", "certs/ca.pem", "\n">>), Some(<<"certs/other.pem">>)}

CaCertValues ==
  {Absent, Some(<< >>), Some(<<" ", "\n">>),
   Some(<<pemHeader, "\n", "MIIBIjANBgkqhkiG9w0BAQEFAAOCAQ8A", "\n", pemFooter>>),
   Some(<<"\n", pemHeader, "\n", "MIIBIjANBgkqhkiG9w0BAQEFAAOCAQ8A", "\n", pemFooter, "\n">>),
   Some(<<"MIIBIjANBgkqhkiG9w0BAQEFAAOCAQ8A">>),
   Some(<<pemHeader, "\n", "MIIBIjANBgkqhkiG9w0BAQEFAAOCAQ8A">>)}

FileSystems == {"file", "empty file", "ENOENT", "EACCES"}

Configs ==
  [rejectUnauthorized : RejectUnauthorizedValues, caFile : CaFileValues,
   caCert : CaCertValues, fs : FileSystems]

InitTls ==
  /\ cache = [k \in {} |-> 0]
  /\ now = 0
  /\ ticks = 0
  /\ pc = [c \in Calls |-> "idle"]
  /\ args = [c \in Calls |-> NoArgs]
  /\ cappedMaxResults = [c \in Calls |-> 0]
  /\ cacheKey = [c \in Calls |-> NoKey]
  /\ attempt = [c \in Calls |-> 0]
  /\ delayMs = [c \in Calls |-> 0]
  /\ response = [c \in Calls |-> NoResponse]
  /\ caught = [c \in Calls |-> NoError]
  /\ result = [c \in Calls |-> NoResult]
  /\ raised = [c \in Calls |-> NoException]
  /\ sent = [c \in Calls |-> << >>]
  /\ waits = [c \in Calls |-> << >>]
  /\ outcomes = [c \in Calls |-> << >>]
  /\ lookupAge = [c \in Calls |-> NoEntry]
  /\ config \in Configs
  /\ httpsAgent = NotBuilt
  /\ request = [c \in Calls |-> NoRequest]
  /\ received = [c \in Calls |-> << >>]
  /\ toggl = NoToggl

NextTls == Construct

SpecTls == InitTls /\ [][NextTls]_vars

(***************************************************************************)
(* SpecMap: one call answered by every body of up to MaxVolumes volumes,   *)
(* each volume with one field of its metadata absent, empty or zero, or    *)
(* given, and with every combination of image links.                       *)
(***************************************************************************)
FullInfo ==
  [title |-> Some("Clean Code"), authors |-> Some(<<"Robert C. Martin">>),
   publisher |-> Some("Prentice Hall"), publishedDate |-> Some("2008"),
   pageCount |-> Some(464),
   description |-> Some("A Handbook of Agile Software Craftsmanship"),
   imageLinks |-> Some([thumbnail |-> Some("thumb.jpg"), smallThumbnail |-> Absent])]

ImageLinks ==
  [thumbnail : {Absent, Some(""), Some("thumb.jpg")},
   smallThumbnail : {Absent, Some("small.jpg")}]

MapInfos ==
  {EmptyInfo, FullInfo}
    \cup {[EmptyInfo EXCEPT !.title = Some(t)] : t \in {"", "Refactoring"}}
    \cup {[EmptyInfo EXCEPT !.authors = Some(a)] : a \in {<< >>, <<"Kent Beck", "Martin Fowler">>}}
    \cup {[EmptyInfo EXCEPT !.publisher = Some(p)] : p \in {"", "Addison-Wesley"}}
    \cup {[EmptyInfo EXCEPT !.publishedDate = Some(d)] : d \in {"", "1999"}}
    \cup {[EmptyInfo EXCEPT !.pageCount = Some(n)] : n \in {0, 431}}
    \cup {[EmptyInfo EXCEPT !.description = Some(d)] : d \in {"", "Improving the design"}}
    \cup {[EmptyInfo EXCEPT !.imageLinks = Some(l)] : l \in ImageLinks}

MapVolumes ==
  {[id |-> "1", volumeInfo |-> Some(info)] : info \in MapInfos}
    \cup {[id |-> "2", volumeInfo |-> Absent]}

VolumeLists == UNION {[1..n -> MapVolumes] : n \in 0..MaxVolumes}

MapPayloads ==
  {Some([totalItems |-> t, items |-> Some(vs)]) :
     t \in {Absent, Some(0)}, vs \in VolumeLists}
    \cup {Some([totalItems |-> t, items |-> Absent]) : t \in {Absent, Some(0)}}

MapRequests == {Request("clean code", UndefinedStr, UndefinedNum, UndefinedNum)}

NextMap ==
  \/ \E r \in MapRequests : SearchBooks(1, r)
  \/ \E data \in MapPayloads : UpstreamResolves(1, data)

SpecMap == Init /\ [][NextMap]_vars

(***************************************************************************)
(* SpecHttp: one request through the route or the controller.              *)
(***************************************************************************)
HttpRequest(q, o) ==
  [via |-> "http", q |-> q, orderBy |-> o, startIndex |-> UndefinedNum,
   maxResults |-> UndefinedNum]

DtoCall(q, o, s, m) ==
  [via |-> "controller", q |-> StringParam(q), orderBy |-> o, startIndex |-> s,
   maxResults |-> m]

HttpRequests ==
  {HttpRequest(q, UndefinedStr) :
     q \in {UndefinedParam, ArrayParam, StringParam(""), StringParam("   "),
            StringParam("nestjs")}}
    \cup {HttpRequest(StringParam("nestjs"), "newest")}
    \cup {DtoCall("react", "newest", 5, 15),
          DtoCall("nestjs", UndefinedStr, UndefinedNum, UndefinedNum)}

HttpFailures ==
  {[axios |-> TRUE, status |-> 429, code |-> "ERR_BAD_REQUEST"],
   [axios |-> TRUE, status |-> 404, code |-> "ERR_BAD_REQUEST"],
   [axios |-> TRUE, status |-> 500, code |-> "ERR_BAD_RESPONSE"],
   [axios |-> TRUE, status |-> 503, code |-> "ERR_BAD_RESPONSE"],
   [axios |-> FALSE, status |-> NoStatus, code |-> NoCode]}

InitHttp ==
  /\ cache = [k \in {} |-> 0]
  /\ now = 0
  /\ ticks = 0
  /\ pc = [c \in Calls |-> "idle"]
  /\ args = [c \in Calls |-> NoArgs]
  /\ cappedMaxResults = [c \in Calls |-> 0]
  /\ cacheKey = [c \in Calls |-> NoKey]
  /\ attempt = [c \in Calls |-> 0]
  /\ delayMs = [c \in Calls |-> 0]
  /\ response = [c \in Calls |-> NoResponse]
  /\ caught = [c \in Calls |-> NoError]
  /\ result = [c \in Calls |-> NoResult]
  /\ raised = [c \in Calls |-> NoException]
  /\ sent = [c \in Calls |-> << >>]
  /\ waits = [c \in Calls |-> << >>]
  /\ outcomes = [c \in Calls |-> << >>]
  /\ lookupAge = [c \in Calls |-> NoEntry]
  /\ config = DefaultConfig
  /\ httpsAgent = buildHttpsAgent(config)
  /\ \E req \in HttpRequests :
       request = [c \in Calls |-> IF c = 1 THEN req ELSE NoRequest]
  /\ received = [c \in Calls |-> << >>]
  /\ toggl = NoToggl

NextHttp ==
  \/ \E c \in Calls : HandleRequest(c)
  \/ \E c \in Calls : ControllerSearchBooks(c)
  \/ \E c \in Calls, data \in Payloads : UpstreamResolves(c, data)
  \/ \E c \in Calls, error \in HttpFailures : UpstreamRejects(c, error)
  \/ \E c \in Calls : DelayElapsed(c)

SpecHttp == InitHttp /\ [][NextHttp]_vars

(***************************************************************************)
(* SpecToggl: one invocation of findBookHours.                             *)
(***************************************************************************)
EnvValues == {Absent, Some(<< >>), Some(<<"1", "2", "3">>)}

TogglEnvs ==
  [TOGGL_API_TOKEN : EnvValues, TOGGL_WORKSPACE_ID : EnvValues,
   TOGGL_PROJECT_ID : {Absent, Some(<<"7">>)}]

Titles == {<<"L", "O", "T", "R">>, <<" ", "l", "o", "t", "r", " ">>}

TogglEntries ==
  {[description |-> StringDescription(<<"L", "o", "t", "r">>), duration |-> 3600],
   [description |-> StringDescription(<<"l", "o", "t", "r", " ", "2">>), duration |-> -1800],
   [description |-> StringDescription(<<"E", "l", "f">>), duration |-> 7200],
   [description |-> NullDescription, duration |-> 60],
   [description |-> NumberDescription, duration |-> 60]}

TogglBodies ==
  {[isArray |-> TRUE, entries |-> es] :
     es \in UNION {[1..n -> TogglEntries] : n \in 0..MaxEntries}}
    \cup {[isArray |-> FALSE, entries |-> << >>]}

TogglData ==
  {[type |-> "undefined", text |-> ""], [type |-> "string", text |-> "proxy"],
   [type |-> "object", text |-> "{}"]}

TogglFailures ==
  [axios : {TRUE}, status : {NoStatus, 400, 401, 403, 404, 429, 500},
   code : {NoCode, "ECONNABORTED", "DEPTH_ZERO_SELF_SIGNED_CERT",
           "SELF_SIGNED_CERT_IN_CHAIN"},
   selfSigned : BOOLEAN, data : TogglData]
    \cup [axios : {FALSE}, status : {NoStatus}, code : {NoCode},
          selfSigned : BOOLEAN, data : {[type |-> "undefined", text |-> ""]}]

TogglClocks == {3600000, 7200000}

InitToggl ==
  /\ cache = [k \in {} |-> 0]
  /\ now \in TogglClocks
  /\ ticks = 0
  /\ pc = [c \in Calls |-> "idle"]
  /\ args = [c \in Calls |-> NoArgs]
  /\ cappedMaxResults = [c \in Calls |-> 0]
  /\ cacheKey = [c \in Calls |-> NoKey]
  /\ attempt = [c \in Calls |-> 0]
  /\ delayMs = [c \in Calls |-> 0]
  /\ response = [c \in Calls |-> NoResponse]
  /\ caught = [c \in Calls |-> NoError]
  /\ result = [c \in Calls |-> NoResult]
  /\ raised = [c \in Calls |-> NoException]
  /\ sent = [c \in Calls |-> << >>]
  /\ waits = [c \in Calls |-> << >>]
  /\ outcomes = [c \in Calls |-> << >>]
  /\ lookupAge = [c \in Calls |-> NoEntry]
  /\ config = DefaultConfig
  /\ httpsAgent = buildHttpsAgent(config)
  /\ request = [c \in Calls |-> NoRequest]
  /\ received = [c \in Calls |-> << >>]
  /\ \E env \in TogglEnvs, title \in Titles :
       toggl = [NoToggl EXCEPT !.env = env, !.title = title]

NextToggl ==
  \/ FindBookHours
  \/ \E data \in TogglBodies : TogglResolves(data)
  \/ \E error \in TogglFailures : TogglRejects(error)

SpecToggl == InitToggl /\ [][NextToggl]_vars

(***************************************************************************)
(* The vocabulary of the properties.                                       *)
(***************************************************************************)
Finished(c) == pc[c] \in {"done", "failed"}

\* How often call c invoked the upstream client.
Invocations(c) == Len(sent[c])

\* Call c was answered from the cache.
ServedFromCache(c) == pc[c] = "done" /\ sent[c] = << >>

\* The request shape of call c: its parameters, maxResults capped to 40.
Shape(c) ==
  <<args[c].query, args[c].orderBy, args[c].startIndex,
    IF args[c].maxResults > 40 THEN 40 ELSE args[c].maxResults>>

\* Attempt i of call c failed.
FailedAttempt(c, i) == i \in 1..Len(outcomes[c]) /\ ~outcomes[c][i].ok

\* The failure that ended call c.
FinalFailure(c) == outcomes[c][Len(outcomes[c])].error

EndedByFailure(c) ==
  pc[c] = "failed" /\ outcomes[c] # << >> /\ ~outcomes[c][Len(outcomes[c])].ok

ClientErrorStatus(status) == status >= 400 /\ status < 500 /\ status # 429

\* The error kind of the taxonomy an exception stands for.
KindOf(x) ==
  CASE x.exception = "UnauthorizedException" -> "Unauthorized"
    [] x.exception = "BadRequestException" -> "BadRequest"
    [] x.exception = "InternalServerErrorException"
         /\ x.message = "Too many requests to Google Books API" -> "Overloaded"
    [] x.exception = "InternalServerErrorException"
         /\ x.message = "Google Books service is unavailable" -> "UpstreamUnavailable"
    [] x.exception = "InternalServerErrorException"
         /\ x.message = "Request to Google Books timed out" -> "Timeout"
    [] x.exception = "InternalServerErrorException"
         /\ x.message = "Unable to reach Google Books service" -> "NetworkUnreachable"
    [] x.exception = "InternalServerErrorException"
         /\ x.message = CertMessage -> "TlsValidationFailed"
    [] x.exception = "InternalServerErrorException"
         /\ x.message = "Failed to search books" -> "Unknown"
    [] OTHER -> "none"

(***************************************************************************)
(* C1.  As claimed: two successful calls of the same shape made within     *)
(* 60,000 ms, the second after the first has stored its result, invoke the *)
(* upstream client at most once in total, and the second returns the value *)
(* of the first.  Calls are numbered in the order they are made, and while *)
(* now < 60,000 every call so far was made within 60,000 ms.               *)
(***************************************************************************)
C1_AsClaimed ==
  now < 60000 =>
    \A a, b \in Calls :
      (/\ a < b
       /\ pc[a] = "done" /\ pc[b] = "done"
       /\ Shape(a) = Shape(b)
       /\ lookupAge[b] >= 0)
        => /\ Invocations(a) + Invocations(b) <= 1
           /\ result[b] = result[a]

(***************************************************************************)
(* C1, amended.  A call whose lookup finds an entry of its shape stored    *)
(* less than 60,000 ms before invokes the upstream client not at all and   *)
(* returns the value a call of the same shape fetched and stored,          *)
(* unchanged.  (The storing call may have needed up to 3 invocations, and  *)
(* overlapping calls may each fetch.)                                      *)
(***************************************************************************)
C1_FreshEntryIsReused ==
  \A c \in Calls :
    (pc[c] # "idle" /\ lookupAge[c] >= 0 /\ lookupAge[c] < 60000)
      => /\ pc[c] = "done"
         /\ Invocations(c) = 0
         /\ \E a \in Calls \ {c} :
              /\ Shape(a) = Shape(c)
              /\ pc[a] = "done"
              /\ Invocations(a) >= 1
              /\ outcomes[a][Len(outcomes[a])].ok
              /\ result[c] = result[a]

\* A call answered from an entry 59,999 ms old that another call needed three
\* invocations to fetch.
C1_Witness ==
  \E a, c \in Calls :
    /\ a # c
    /\ lookupAge[c] = 59999
    /\ ServedFromCache(c)
    /\ pc[a] = "done"
    /\ Shape(a) = Shape(c)
    /\ Invocations(a) = 3
    /\ result[c] = result[a]

(***************************************************************************)
(* C2.  A call whose lookup finds the entry 60,000 ms old or older does    *)
(* not serve it but invokes the upstream client; a call is answered from   *)
(* the cache only when the entry it found was less than 60,000 ms old.     *)
(***************************************************************************)
C2_ExpiredEntryIsRefetched ==
  \A c \in Calls :
    /\ (pc[c] # "idle" /\ lookupAge[c] >= 60000) => Invocations(c) >= 1
    /\ ServedFromCache(c) => (lookupAge[c] >= 0 /\ lookupAge[c] < 60000)

\* A call that found an entry exactly 60,000 ms old and went upstream.
C2_Witness ==
  \E c \in Calls :
    /\ lookupAge[c] = 60000
    /\ Invocations(c) >= 1
    /\ cacheKey[c] \in DOMAIN cache

(***************************************************************************)
(* C3.  429 on attempts 1 and 2 and a response with a body on attempt 3:   *)
(* searchBooks returns the mapped response after exactly 3 invocations.    *)
(***************************************************************************)
C3_ThrottledTwice(c) ==
  /\ FailedAttempt(c, 1) /\ outcomes[c][1].error.axios /\ outcomes[c][1].error.status = 429
  /\ FailedAttempt(c, 2) /\ outcomes[c][2].error.axios /\ outcomes[c][2].error.status = 429

C3_Pattern(c) ==
  /\ Len(outcomes[c]) = 3
  /\ C3_ThrottledTwice(c)
  /\ outcomes[c][3].ok /\ outcomes[c][3].data # Absent

C3_ThrottledTwiceThenSucceeds ==
  \A c \in Calls :
    \* the second 429 does not end the call: a third attempt is due or made
    /\ (C3_ThrottledTwice(c) /\ Len(outcomes[c]) = 2)
         => (pc[c] = "delaying" \/ (pc[c] = "fetching" /\ Invocations(c) = 3))
    /\ C3_Pattern(c)
         => /\ pc[c] = "done"
            /\ result[c] = mapResponse(outcomes[c][3].data[1])
            /\ Invocations(c) = 3

\* The run of the test: the third attempt answers with the volume "2".
C3_Witness ==
  \E c \in Calls :
    /\ C3_Pattern(c)
    /\ pc[c] = "done"
    /\ Len(result[c].items) = 1
    /\ result[c].items[1].id = "2"
    /\ result[c].items[1].title = "Refactoring"

(***************************************************************************)
(* C4.  One call invokes the upstream client at most 3 times, and a        *)
(* failure of the 3rd attempt ends the call: no wait and no attempt        *)
(* follows it, whatever its status or code.                                *)
(***************************************************************************)
C4_AtMostThreeAttempts ==
  \A c \in Calls :
    /\ Invocations(c) <= 3
    /\ Len(outcomes[c]) <= 3
    /\ Len(waits[c]) <= 2
    /\ Len(outcomes[c]) = 3 => (Finished(c) /\ Invocations(c) = 3 /\ Len(waits[c]) = 2)

\* A call whose third attempt failed with a retryable failure.
C4_Witness ==
  \E c \in Calls :
    /\ pc[c] = "failed"
    /\ Len(outcomes[c]) = 3
    /\ FailedAttempt(c, 3)
    /\ outcomes[c][3].error.axios
    /\ outcomes[c][3].error.status = 503
    /\ Invocations(c) = 3

(***************************************************************************)
(* C5.  As claimed: a first attempt that fails with a status in [400,500)  *)
(* other than 429 makes searchBooks raise BadRequest with that status      *)
(* after exactly one invocation, whatever code the failure carries.        *)
(***************************************************************************)
C5_AsClaimed ==
  \A c \in Calls :
    (/\ Finished(c)
     /\ FailedAttempt(c, 1)
     /\ outcomes[c][1].error.axios
     /\ ClientErrorStatus(outcomes[c][1].error.status))
      => /\ pc[c] = "failed"
         /\ raised[c].exception = "BadRequestException"
         /\ raised[c].status = outcomes[c][1].error.status
         /\ Invocations(c) = 1

(***************************************************************************)
(* C5, amended.  A call that ends with a failure of status in [400,500)    *)
(* other than 429 raises BadRequest carrying that status, whatever the     *)
(* code.  Such a failure is not retried, so it ends the call on its        *)
(* attempt (after exactly one invocation when it is the first), unless     *)
(* its code is ECONNABORTED or ERR_NETWORK: those are retried.             *)
(***************************************************************************)
C5_ClientErrorIsBadRequest ==
  \A c \in Calls :
    /\ (EndedByFailure(c) /\ FinalFailure(c).axios
          /\ ClientErrorStatus(FinalFailure(c).status))
         => /\ raised[c].exception = "BadRequestException"
            /\ raised[c].message = "Google Books API error"
            /\ raised[c].status = FinalFailure(c).status
    /\ \A i \in 1..Len(outcomes[c]) :
         (/\ FailedAttempt(c, i)
          /\ outcomes[c][i].error.axios
          /\ ClientErrorStatus(outcomes[c][i].error.status)
          /\ outcomes[c][i].error.code \notin {"ECONNABORTED", "ERR_NETWORK"})
           => /\ pc[c] = "failed"
              /\ Len(outcomes[c]) = i
              /\ Invocations(c) = i
              /\ Len(waits[c]) = i - 1

\* The run of the test: 404 with ERR_BAD_REQUEST on the first attempt.
C5_Witness ==
  \E c \in Calls :
    /\ pc[c] = "failed"
    /\ Len(outcomes[c]) = 1
    /\ FinalFailure(c) = [axios |-> TRUE, status |-> 404, code |-> "ERR_BAD_REQUEST"]
    /\ raised[c] = [exception |-> "BadRequestException",
                    message |-> "Google Books API error", status |-> 404]
    /\ Invocations(c) = 1

(***************************************************************************)
(* C6.  A call that ends with a failure of status 401 raises the           *)
(* Unauthorized kind.                                                      *)
(***************************************************************************)
C6_UnauthorizedFor401 ==
  \A c \in Calls :
    (EndedByFailure(c) /\ FinalFailure(c).axios /\ FinalFailure(c).status = 401)
      => KindOf(raised[c]) = "Unauthorized"

(***************************************************************************)
(* C7.  A call that ends with a failure without status whose code is one   *)
(* of the four certificate codes raises TlsValidationFailed, with the      *)
(* message that names the CA bundle settings and the switch that disables  *)
(* validation.                                                             *)
(***************************************************************************)
C7_CertificateFailure ==
  \A c \in Calls :
    (/\ EndedByFailure(c)
     /\ FinalFailure(c).axios
     /\ FinalFailure(c).status = 0
     /\ FinalFailure(c).code \in
          {"SELF_SIGNED_CERT_IN_CHAIN", "DEPTH_ZERO_SELF_SIGNED_CERT",
           "UNABLE_TO_VERIFY_LEAF_SIGNATURE", "CERT_HAS_EXPIRED"})
      => /\ KindOf(raised[c]) = "TlsValidationFailed"
         /\ raised[c].exception = "InternalServerErrorException"
         /\ raised[c].message = "SSL certificate validation failed for Google Books API. Provide a trusted CA bundle via GOOGLE_BOOKS_CA_FILE/GOOGLE_BOOKS_CA_CERT or disable validation (GOOGLE_BOOKS_REJECT_UNAUTHORIZED=false) in development environments."

\* An expired certificate on the second attempt, after a throttled first.
C7_Witness ==
  \E c \in Calls :
    /\ pc[c] = "failed"
    /\ Len(outcomes[c]) = 2
    /\ FinalFailure(c) = [axios |-> TRUE, status |-> 0, code |-> "CERT_HAS_EXPIRED"]
    /\ KindOf(raised[c]) = "TlsValidationFailed"

(***************************************************************************)
(* C8.  The kind raised is a function of the final failure, the rows of    *)
(* the taxonomy read in order: 429 -> Overloaded; status >= 500 ->         *)
(* UpstreamUnavailable; ECONNABORTED -> Timeout; ERR_NETWORK ->            *)
(* NetworkUnreachable; a certificate code -> TlsValidationFailed; all      *)
(* else, and every error that is no HTTP-client error -> Unknown.  (The    *)
(* statuses in [400,500) other than 429 are C5's and C6's.)                *)
(***************************************************************************)
C8_Taxonomy(e) ==
  IF ~e.axios THEN "Unknown"
  ELSE IF e.status = 429 THEN "Overloaded"
  ELSE IF e.status >= 500 THEN "UpstreamUnavailable"
  ELSE IF e.code = "ECONNABORTED" THEN "Timeout"
  ELSE IF e.code = "ERR_NETWORK" THEN "NetworkUnreachable"
  ELSE IF e.code \in {"SELF_SIGNED_CERT_IN_CHAIN", "DEPTH_ZERO_SELF_SIGNED_CERT",
                      "UNABLE_TO_VERIFY_LEAF_SIGNATURE", "CERT_HAS_EXPIRED"}
       THEN "TlsValidationFailed"
  ELSE "Unknown"

C9_StatusBeforeCode ==
  \A c \in Calls :
    (EndedByFailure(c) /\ FinalFailure(c).axios /\ FinalFailure(c).status >= 400)
      => KindOf(raised[c]) \notin {"Timeout", "NetworkUnreachable", "TlsValidationFailed"}

\* A final failure that carries both the status 500 and a certificate code.
C9_Witness ==
  \E c \in Calls :
    /\ EndedByFailure(c)
    /\ FinalFailure(c) = [axios |-> TRUE, status |-> 500, code |-> "CERT_HAS_EXPIRED"]
    /\ KindOf(raised[c]) = "UpstreamUnavailable"

(***************************************************************************)
(* C10.  A failed attempt is followed by a wait and another attempt if and *)
(* only if it was the 1st or 2nd attempt and the failure is an HTTP-client *)
(* error with status 429 or 503 or with code ECONNABORTED or ERR_NETWORK;  *)
(* any other failure ends the call on that attempt, with no further wait.  *)
(***************************************************************************)
C10_Retryable(e) ==
  e.axios /\ (e.status \in {429, 503} \/ e.code \in {"ECONNABORTED", "ERR_NETWORK"})

\* After its attempt i failed, call c waits for, or has made, attempt i + 1.
C10_Followed(c, i) ==
  \/ Invocations(c) > i
  \/ (Len(outcomes[c]) = i /\ pc[c] = "delaying")

C10_RetryIffRetryable ==
  \A c \in Calls :
    \A i \in 1..Len(outcomes[c]) :
      FailedAttempt(c, i)
        => /\ C10_Followed(c, i) <=> (i < 3 /\ C10_Retryable(outcomes[c][i].error))
           /\ C10_Followed(c, i) => Len(waits[c]) >= i
           /\ ~C10_Followed(c, i)
                => (pc[c] = "failed" /\ Invocations(c) = i /\ Len(waits[c]) = i - 1)

\* A 503 retried, then a 500 that ends the call at once.
C10_Witness ==
  \E c \in Calls :
    /\ pc[c] = "failed"
    /\ Len(outcomes[c]) = 2
    /\ FailedAttempt(c, 1) /\ outcomes[c][1].error.status = 503
    /\ FailedAttempt(c, 2) /\ outcomes[c][2].error.status = 500
    /\ outcomes[c][2].error.code = "ERR_BAD_REQUEST"
    /\ Invocations(c) = 2
    /\ Len(waits[c]) = 1

(***************************************************************************)
(* C11.  The wait before attempt 2 is 500 ms and the wait before attempt 3 *)
(* is 1000 ms, each the double of the one before.  No wait precedes        *)
(* attempt 1 and none follows the last attempt: a call that is fetching or *)
(* has ended has made one wait fewer than invocations, a call in a wait    *)
(* has made as many, and the waits of a call total at most 1500 ms.        *)
(***************************************************************************)
RECURSIVE C11_Total(_)
C11_Total(s) == IF s = << >> THEN 0 ELSE Head(s) + C11_Total(Tail(s))

C11_BackoffDoubles ==
  \A c \in Calls :
    /\ Len(waits[c]) >= 1 => waits[c][1] = 500
    /\ Len(waits[c]) >= 2 => waits[c][2] = 1000
    /\ \A i \in 2..Len(waits[c]) : waits[c][i] = 2 * waits[c][i - 1]
    /\ Invocations(c) = 0 => waits[c] = << >>
    /\ pc[c] = "delaying" => Len(waits[c]) = Invocations(c)
    /\ (Invocations(c) >= 1 /\ pc[c] # "delaying")
         => Len(waits[c]) = Invocations(c) - 1
    /\ C11_Total(waits[c]) <= 1500

\* A call that ended after three invocations and the waits 500 and 1000.
C11_Witness ==
  \E c \in Calls :
    /\ Finished(c)
    /\ Invocations(c) = 3
    /\ waits[c] = <<500, 1000>>
    /\ C11_Total(waits[c]) = 1500

(***************************************************************************)
(* C12.  On every attempt of every call the maxResults sent upstream is    *)
(* the smaller of the requested maxResults and 40, so never more than 40.  *)
(***************************************************************************)
C12_SentIsCapped ==
  \A c \in Calls :
    \A i \in 1..Len(sent[c]) :
      /\ sent[c][i].maxResults =
           (IF args[c].maxResults < 40 THEN args[c].maxResults ELSE 40)
      /\ sent[c][i].maxResults <= 40

\* A call that asked for 60 and sent 40 on each of its three attempts.
C12_Witness ==
  \E c \in Calls :
    /\ args[c].maxResults = 60
    /\ Invocations(c) = 3
    /\ \A i \in 1..3 : sent[c][i].maxResults = 40

\* maxResults as the cache key and the upstream request carry it.
Capped(maxResults) == IF maxResults > 40 THEN 40 ELSE maxResults

\* Calls a and b ask for the same query, orderBy and startIndex.
SameSearch(a, b) ==
  /\ args[a].query = args[b].query
  /\ args[a].orderBy = args[b].orderBy
  /\ args[a].startIndex = args[b].startIndex

(***************************************************************************)
(* C13.  As claimed: of a request for maxResults = 10 and a request for    *)
(* maxResults = 60 with the same query, orderBy and startIndex, the one    *)
(* made after the other has succeeded, and within 60,000 ms, is served     *)
(* from the cache without an upstream call.  (Under SpecKeys a call is     *)
(* made only after every earlier call has ended, and while now < 60,000    *)
(* every call so far was made within the TTL.)                             *)
(***************************************************************************)
C13_AsClaimed ==
  now < 60000 =>
    \A a, b \in Calls :
      (/\ a < b
       /\ pc[a] = "done" /\ pc[b] # "idle"
       /\ SameSearch(a, b)
       /\ {args[a].maxResults, args[b].maxResults} = {10, 60})
        => ServedFromCache(b)

(***************************************************************************)
(* C13, amended.  Two requests with the same query, orderBy and startIndex *)
(* have the same cache key exactly when their maxResults capped to 40 are  *)
(* equal.  So 40 and 60 share an entry: after one has succeeded the other, *)
(* made within the TTL, is served from the cache without an upstream call  *)
(* and returns the same value.  10 and 60 do not: the request for 10 keeps *)
(* the key of 10, and the later of the two goes upstream unless a call of  *)
(* its own capped maxResults succeeded before it.                          *)
(***************************************************************************)
C13_CappedKeyIsShared ==
  now < 60000 =>
    \A a, b \in Calls :
      (a < b /\ pc[a] = "done" /\ pc[b] # "idle" /\ SameSearch(a, b))
        => /\ (cacheKey[a] = cacheKey[b])
                <=> (Capped(args[a].maxResults) = Capped(args[b].maxResults))
           /\ Capped(args[a].maxResults) = Capped(args[b].maxResults)
                => /\ ServedFromCache(b)
                   /\ Invocations(b) = 0
                   /\ result[b] = result[a]
           /\ (\A d \in Calls :
                 (d < b /\ pc[d] = "done" /\ SameSearch(d, b))
                   => Capped(args[d].maxResults) # Capped(args[b].maxResults))
                => Invocations(b) = 1

\* A request for 60 fetched and stored; a request for 40 served from its entry.
C13_Witness ==
  \E a, b \in Calls :
    /\ a < b
    /\ args[a].maxResults = 60 /\ args[b].maxResults = 40
    /\ SameSearch(a, b)
    /\ pc[a] = "done" /\ Invocations(a) = 1
    /\ ServedFromCache(b)
    /\ lookupAge[b] >= 0
    /\ result[b] = result[a]

(***************************************************************************)
(* C14.  A call fails only by raising one of the classified errors:        *)
(* BadRequest naming a status in [400,500) other than 429, or a server     *)
(* error with one of six fixed messages.  That holds for a failure of the  *)
(* upstream call, of the retry loop and of the response mapping alike, and *)
(* the error raised carries nothing else: no code of the upstream error,   *)
(* no payload, no attempt count.  A call whose last attempt failed without *)
(* a retry has failed, and a failed call has returned no result.           *)
(***************************************************************************)
C14_Classified ==
  {[exception |-> "BadRequestException", message |-> "Google Books API error",
    status |-> s] : s \in (400..499) \ {429}}
    \cup
  {[exception |-> "InternalServerErrorException", message |-> m, status |-> 0] :
     m \in {"Too many requests to Google Books API",
            "Google Books service is unavailable",
            "Request to Google Books timed out",
            "Unable to reach Google Books service",
            CertMessage,
            "Failed to search books"}}

C14_OnlyClassifiedErrors ==
  \A c \in Calls :
    /\ pc[c] = "failed" <=> raised[c] # NoException
    /\ pc[c] = "failed"
         => /\ raised[c] \in C14_Classified
            /\ KindOf(raised[c]) \notin {"none", "Unauthorized"}
            /\ result[c] = NoResult
    \* the upstream call and the retry loop
    /\ (/\ Len(outcomes[c]) = Invocations(c)
        /\ FailedAttempt(c, Len(outcomes[c]))
        /\ pc[c] # "delaying")
         => pc[c] = "failed"
    \* the response mapping
    /\ (/\ outcomes[c] # << >>
        /\ outcomes[c][Len(outcomes[c])].ok
        /\ outcomes[c][Len(outcomes[c])].data = Absent)
         => /\ pc[c] = "failed"
            /\ raised[c] = [exception |-> "InternalServerErrorException",
                            message |-> "Failed to search books", status |-> 0]

\* A response without a body on the second attempt: the mapping throws, the
\* caller gets the server error "Failed to search books".
C14_Witness ==
  \E c \in Calls :
    /\ pc[c] = "failed"
    /\ Len(outcomes[c]) = 2
    /\ FailedAttempt(c, 1)
    /\ outcomes[c][2].ok /\ outcomes[c][2].data = Absent
    /\ raised[c].exception = "InternalServerErrorException"
    /\ raised[c].message = "Failed to search books"

\* Call c is suspended: it awaits its upstream request or its backoff timer.
Suspended(c) == pc[c] \in {"fetching", "delaying"}

\* Call c is the next call to be made.
NextToStart(c) == pc[c] = "idle" /\ \A d \in Calls : d < c => pc[d] # "idle"

(***************************************************************************)
(* C15.  Each call makes at most one fetch sequence, of at most 3          *)
(* invocations that all send the same request, and makes it exactly when   *)
(* its own lookup found no entry younger than 60,000 ms: N calls for one   *)
(* key make at most N sequences.  No call waits for another: whatever the  *)
(* other calls are doing, for the same key or another, the next call can   *)
(* be made with any request, and it returns from the cache or issues its   *)
(* own upstream request in the same step.                                  *)
(***************************************************************************)
C15_NoLockOneSequencePerCall ==
  \A c \in Calls :
    /\ Invocations(c) <= 3
    /\ \A i \in 1..Invocations(c) : sent[c][i] = sent[c][1]
    /\ (lookupAge[c] >= 0 /\ lookupAge[c] < 60000) => Invocations(c) = 0
    /\ (pc[c] # "idle" /\ (lookupAge[c] = NoEntry \/ lookupAge[c] >= 60000))
         => Invocations(c) >= 1
    /\ NextToStart(c)
         => \A r \in Requests :
              ENABLED (SearchBooks(c, r) /\ pc'[c] \in {"done", "fetching"})

\* Two calls for the same key that both found no entry and both fetch.
C15_Witness ==
  \E a, b \in Calls :
    /\ a < b
    /\ cacheKey[a] = cacheKey[b]
    /\ lookupAge[a] = NoEntry /\ lookupAge[b] = NoEntry
    /\ pc[a] = "fetching" /\ pc[b] = "fetching"
    /\ Invocations(a) = 1 /\ Invocations(b) = 1
    /\ DOMAIN cache = {}

(***************************************************************************)
(* C16.  While a call is suspended, in flight upstream or in a backoff     *)
(* wait, every other call can take its next step: the next call can be     *)
(* made, and is answered at once when the cache holds a fresh entry for    *)
(* it; a call in flight can receive its response and end, or its error; a  *)
(* call in a wait can have its timer fire and go on to its next attempt.   *)
(* None of these steps touches the suspended call.                         *)
(***************************************************************************)
C16_SuspendedCallBlocksNoOther ==
  \A a, b \in Calls :
    (a # b /\ Suspended(a))
      => /\ NextToStart(b)
              => \A r \in Requests :
                   /\ ENABLED (SearchBooks(b, r) /\ pc'[a] = pc[a])
                   /\ cacheHit(cache,
                               buildCacheKey(withDefaults(r).query, withDefaults(r).orderBy,
                                             withDefaults(r).startIndex,
                                             capMaxResults(withDefaults(r).maxResults)),
                               now)
                        => ENABLED (SearchBooks(b, r) /\ pc'[b] = "done" /\ pc'[a] = pc[a])
         /\ pc[b] = "fetching"
              => /\ \A data \in Payloads :
                      ENABLED (UpstreamResolves(b, data) /\ pc'[b] = "done" /\ pc'[a] = pc[a])
                 /\ \A error \in Failures :
                      ENABLED (UpstreamRejects(b, error) /\ pc'[a] = pc[a])
         /\ pc[b] = "delaying"
              => ENABLED (DelayElapsed(b) /\ pc'[b] = "fetching" /\ pc'[a] = pc[a])

\* A call made after another, which went upstream itself and has ended while
\* the first is still in its backoff wait.
C16_Witness ==
  \E a, b \in Calls :
    /\ a < b
    /\ pc[a] = "delaying"
    /\ pc[b] = "done"
    /\ Invocations(b) >= 1
    /\ Len(outcomes[a]) = 1

(***************************************************************************)
(* C17.  Every call that was made eventually ends, done or failed, given   *)
(* that every upstream request is answered and every backoff timer fires.  *)
(* Nothing aborts a call on the way: a suspended call moves only by the    *)
(* answer to its own request or by its own timer, it ends only on such an  *)
(* answer, and a call that went upstream has ended by a response, by a     *)
(* failure that is not retryable or by the failure of its third attempt.   *)
(* A call that has ended stays as it ended.                                *)
(***************************************************************************)
C17_EveryCallEnds ==
  /\ \A c \in Calls : (pc[c] # "idle") ~> Finished(c)
  /\ [][\A c \in Calls :
          /\ (Suspended(c) /\ pc'[c] # pc[c])
               => \/ pc[c] = "fetching" /\ Len(outcomes'[c]) = Len(outcomes[c]) + 1
                  \/ pc[c] = "delaying" /\ pc'[c] = "fetching"
                       /\ Len(sent'[c]) = Len(sent[c]) + 1
          /\ Finished(c) => (pc'[c] = pc[c] /\ result'[c] = result[c]
                               /\ raised'[c] = raised[c])]_vars
  /\ [](\A c \in Calls :
          (Finished(c) /\ Invocations(c) >= 1)
            => /\ Len(outcomes[c]) = Invocations(c)
               /\ \/ outcomes[c][Len(outcomes[c])].ok
                  \/ ~C10_Retryable(FinalFailure(c))
                  \/ Len(outcomes[c]) = 3)

\* A call that ended with the response to its third attempt, after two waits.
C17_Witness ==
  \E c \in Calls :
    /\ pc[c] = "done"
    /\ Len(outcomes[c]) = 3
    /\ Len(waits[c]) = 2
    /\ outcomes[c][3].ok

(***************************************************************************)
(* C18.  No step removes a key from the cache: the set of cached keys only *)
(* grows.  The step in which a call is made, lookup included, leaves the   *)
(* cache as it was, also when the entry it finds has expired; an entry     *)
(* changes only by the store of a call for its key that ends done, and     *)
(* then to that call's result, dated now.  So the key of an expired entry  *)
(* a call has found is still cached whenever that call is looked at.       *)
(***************************************************************************)
C18_CacheOnlyGrows ==
  /\ [][/\ DOMAIN cache \subseteq DOMAIN cache'
        /\ \A c \in Calls : (pc[c] = "idle" /\ pc'[c] # "idle") => cache' = cache
        /\ \A k \in DOMAIN cache :
             cache'[k] # cache[k]
               => \E c \in Calls :
                    /\ pc[c] = "fetching" /\ pc'[c] = "done"
                    /\ cacheKey[c] = k
                    /\ cache'[k] = [timestamp |-> now, data |-> result'[c]]
        /\ \A k \in DOMAIN cache' \ DOMAIN cache :
             \E c \in Calls : pc[c] = "fetching" /\ pc'[c] = "done" /\ cacheKey[c] = k]_vars
  /\ [](\A c \in Calls : lookupAge[c] >= 60000 => cacheKey[c] \in DOMAIN cache)

\* A call that found its entry expired and failed: the expired entry is there.
C18_Witness ==
  \E c \in Calls :
    /\ lookupAge[c] >= 60000
    /\ pc[c] = "failed"
    /\ cacheKey[c] \in DOMAIN cache
    /\ now - cache[cacheKey[c]].timestamp >= 60000

\* The optional string o is undefined, empty or made of blanks only.
BlankString(o) ==
  o = Absent \/ \A i \in 1..Len(o[1]) : o[1][i] \in {" ", "\t", "\n"}

\* The string s without the blanks before its first and after its last piece
\* that is no blank.
Stripped(s) ==
  LET solid == {i \in 1..Len(s) : s[i] \notin {" ", "\t", "\n"}}
  IN IF solid = {} THEN << >>
     ELSE SubSeq(s, CHOOSE i \in solid : \A j \in solid : i <= j,
                    CHOOSE i \in solid : \A j \in solid : j <= i)

\* The values of the switch that mean false: the boolean, and the words false,
\* 0, no and off in any case and with blanks round them.
ResolvesToFalse(value) ==
  \/ value = [type |-> "boolean", bool |-> FALSE, str |-> << >>]
  \/ /\ value.type = "string"
     /\ value.str \in {<<"f", "a", "l", "s", "e">>, <<"F", "A", "L", "S", "E">>,
                       <<" ", "N", "o", "\n">>, <<"0">>, <<"o", "f", "f">>}

\* An inline certificate is configured; the CA file is configured, no inline
\* certificate is, and the file can be read; or it cannot be read.
InlineCertificateGiven == ~BlankString(config.caCert)

CaFileRead ==
  /\ BlankString(config.caCert) /\ ~BlankString(config.caFile)
  /\ Stripped(config.caFile[1]) = <<"certs/ca.pem">>
  /\ config.fs \in {"file", "empty file"}

CaFileReadFails ==
  /\ BlankString(config.caCert) /\ ~BlankString(config.caFile)
  /\ \/ Stripped(config.caFile[1]) # <<"certs/ca.pem">>
     \/ config.fs \in {"ENOENT", "EACCES"}

(***************************************************************************)
(* C19.  The constructor leaves an agent if and only if a CA bundle was    *)
(* loaded or the switch resolved to false; with the switch unset, not      *)
(* recognized or true and no bundle loaded it leaves none.  The agent      *)
(* carries the bundle when one was loaded and rejectUnauthorized = false   *)
(* exactly when the switch resolved to false.  An inline certificate that  *)
(* is not blank is the bundle, stripped of the blanks round it (as a       *)
(* string when it has the PEM header and footer, else decoded from         *)
(* base64), and the CA file is then not read.                              *)
(***************************************************************************)
C19_AgentIffBundleOrDisabled ==
  httpsAgent.state = "built"
    => /\ (httpsAgent.agent # Absent)
            <=> (InlineCertificateGiven \/ CaFileRead
                   \/ ResolvesToFalse(config.rejectUnauthorized))
       /\ httpsAgent.agent # Absent
            => /\ (httpsAgent.agent[1].ca # Absent)
                    <=> (InlineCertificateGiven \/ CaFileRead)
               /\ (httpsAgent.agent[1].rejectUnauthorized = <<FALSE>>)
                    <=> ResolvesToFalse(config.rejectUnauthorized)
       /\ InlineCertificateGiven
            => /\ httpsAgent.reads = << >>
               /\ httpsAgent.agent[1].ca[1].text = Stripped(config.caCert[1])
               /\ httpsAgent.agent[1].ca[1].kind =
                    (IF /\ \E i \in 1..Len(config.caCert[1]) :
                             config.caCert[1][i] = "-----BEGIN CERTIFICATE-----"
                        /\ \E i \in 1..Len(config.caCert[1]) :
                             config.caCert[1][i] = "-----END CERTIFICATE-----"
                     THEN "string" ELSE "Buffer")
       /\ CaFileRead
            => /\ httpsAgent.reads = <<Stripped(config.caFile[1])>>
               /\ httpsAgent.agent[1].ca[1].kind = "Buffer"
               /\ httpsAgent.agent[1].ca[1].from = "file"

\* The inline certificate of the test, padded, with a readable CA file beside
\* it: the agent trusts the inline certificate and the file was not read.
C19_Witness ==
  /\ httpsAgent.state = "built"
  /\ config.caFile = <<<<"certs/ca.pem">>>>
  /\ config.fs = "file"
  /\ Len(config.caCert) = 1 /\ Len(config.caCert[1]) = 7
  /\ httpsAgent.agent # Absent
  /\ httpsAgent.agent[1].ca[1].kind = "string"
  /\ Len(httpsAgent.agent[1].ca[1].text) = 5
  /\ httpsAgent.reads = << >>

(***************************************************************************)
(* C20.  The constructor never throws.  When the read of the configured    *)
(* CA file fails, the failure is logged and the service is built with the  *)
(* agent it would have with no CA file configured: none, or an agent with  *)
(* rejectUnauthorized = false and nothing else when the switch resolved to *)
(* false.                                                                  *)
(***************************************************************************)
C20_ReadFailureIsNoBundle ==
  httpsAgent.state # "unbuilt"
    => /\ httpsAgent.state = "built"
       /\ CaFileReadFails
            => /\ httpsAgent.agent =
                    (IF ResolvesToFalse(config.rejectUnauthorized)
                     THEN <<[rejectUnauthorized |-> <<FALSE>>, ca |-> << >>]>>
                     ELSE << >>)
               /\ httpsAgent.agent =
                    buildHttpsAgent([config EXCEPT !.caFile = Absent]).agent
               /\ httpsAgent.reads = <<Stripped(config.caFile[1])>>
               /\ httpsAgent.logs # << >> /\ httpsAgent.logs[1] = "error"

\* A CA file that may not be read, the switch "FALSE": the service is built,
\* with an agent that only disables the verification.
C20_Witness ==
  /\ httpsAgent.state = "built"
  /\ CaFileReadFails
  /\ config.fs = "EACCES"
  /\ config.caFile = <<<<"certs/ca.pem">>>>
  /\ config.rejectUnauthorized.str = <<"F", "A", "L", "S", "E">>
  /\ httpsAgent.agent = <<[rejectUnauthorized |-> <<FALSE>>, ca |-> << >>]>>
  /\ httpsAgent.logs = <<"error", "warn">>

\* The body call c received on the attempt that answered it.
ReceivedBody(c) == outcomes[c][Len(outcomes[c])].data[1]

\* The volumes of a body: none when the list is absent.
VolumesOf(body) == IF body.items = << >> THEN << >> ELSE body.items[1]

\* A field of the metadata of volume v, or the default when the metadata or
\* the field is absent.
FieldOr(v, field, default) ==
  IF v.volumeInfo = << >> THEN default
  ELSE IF v.volumeInfo[1][field] = << >> THEN default
  ELSE v.volumeInfo[1][field][1]

\* The image link of volume v under the name given, << >> when there is none.
LinkOf(v, name) ==
  IF v.volumeInfo = << >> THEN << >>
  ELSE IF v.volumeInfo[1].imageLinks = << >> THEN << >>
  ELSE v.volumeInfo[1].imageLinks[1][name]

(***************************************************************************)
(* C21.  A call answered by a body returns one record per volume of the    *)
(* body, in the order of the body.  A record has the id of its volume, and *)
(* title, authors, publisher, publishedDate and pageCount as the volume    *)
(* gives them, the empty string, the empty list and 0 included, or "Unknown*)
(* Title", ["Unknown Author"], "Unknown Publisher", "Unknown" and 0 where  *)
(* the volume gives none.  Its thumbnail is the thumbnail link when there  *)
(* is one, else the small-thumbnail link.  totalItems is the body's, or    *)
(* the number of records when the body has none; a body without a list of  *)
(* items gives no records.                                                 *)
(***************************************************************************)
C21_MapperDefaults ==
  \A c \in Calls :
    (pc[c] = "done" /\ Invocations(c) >= 1)
      => LET body == ReceivedBody(c)
             volumes == VolumesOf(body)
         IN /\ Len(result[c].items) = Len(volumes)
            /\ result[c].totalItems =
                 (IF body.totalItems = << >> THEN Len(volumes) ELSE body.totalItems[1])
            /\ \A i \in 1..Len(volumes) :
                 LET v == volumes[i]
                     b == result[c].items[i]
                 IN /\ b.id = v.id
                    /\ b.title = FieldOr(v, "title", "Unknown Title")
                    /\ b.authors = FieldOr(v, "authors", <<"Unknown Author">>)
                    /\ b.publisher = FieldOr(v, "publisher", "Unknown Publisher")
                    /\ b.publishedDate = FieldOr(v, "publishedDate", "Unknown")
                    /\ b.pageCount = FieldOr(v, "pageCount", 0)
                    /\ b.thumbnail =
                         (IF LinkOf(v, "thumbnail") # << >>
                          THEN LinkOf(v, "thumbnail")
                          ELSE LinkOf(v, "smallThumbnail"))

\* A body without totalItems whose first volume has an empty title and whose
\* second has an empty thumbnail link beside a small one.
C21_Witness ==
  \E c \in Calls :
    /\ pc[c] = "done"
    /\ Invocations(c) = 1
    /\ ReceivedBody(c).totalItems = << >>
    /\ Len(result[c].items) = 2
    /\ result[c].totalItems = 2
    /\ result[c].items[1].title = ""
    /\ result[c].items[1].authors = <<"Unknown Author">>
    /\ result[c].items[2].title = "Unknown Title"
    /\ result[c].items[2].thumbnail = <<"">>
    /\ LinkOf(VolumesOf(ReceivedBody(c))[2], "smallThumbnail") = <<"small.jpg">>

\* How the service call of c stands: its state, its value and its exception.
ServiceOutcome(c) == [state |-> pc[c], value |-> result[c], error |-> raised[c]]

\* The DTO of a request that got to the controller.
Handled(c) == request[c].via # "none" /\ pc[c] \notin {"idle", "rejected"}

\* A string that trimming leaves empty.
BlankAfterTrim(value) == value.type = "string" /\ value.text \in {"", " ", "   "}

(***************************************************************************)
(* C22.  For a request the controller handles, the service is invoked      *)
(* exactly once, with the q, orderBy, startIndex and maxResults of the     *)
(* controller's DTO, undefined where the DTO has none; the controller's    *)
(* outcome is the service's: the same value when the call is done, the     *)
(* same exception when it failed.  Before the controller runs the service  *)
(* is not invoked.                                                         *)
(***************************************************************************)
C22_ControllerPassesThrough ==
  \A c \in Calls :
    request[c].via # "none" =>
      LET dto == searchQuery(request[c])
      IN /\ Handled(c) =>
              received[c] = << [query |-> dto.q.text, orderBy |-> dto.orderBy,
                                startIndex |-> dto.startIndex,
                                maxResults |-> dto.maxResults] >>
         /\ ~Handled(c) => received[c] = << >>
         /\ pc[c] = "done" =>
              controllerOutcome(ServiceOutcome(c)).value = result[c]
         /\ pc[c] = "failed" =>
              /\ controllerOutcome(ServiceOutcome(c)).error = raised[c]
              /\ raised[c] = handleError(FinalFailure(c))

\* A direct call with all four fields set, ended by a failure of the service.
C22_Witness ==
  /\ request[1].via = "controller"
  /\ request[1].orderBy = "newest"
  /\ pc[1] = "failed"
  /\ raised[1].exception = "InternalServerErrorException"
  /\ received[1] = << Request("react", "newest", 5, 15) >>

(***************************************************************************)
(* C23.  An HTTP search request whose q is a string that trimming leaves   *)
(* empty is rejected with status 400 and the service is never invoked for  *)
(* it.                                                                     *)
(***************************************************************************)
C23_BlankQueryNeverReachesService ==
  \A c \in Calls :
    (request[c].via = "http" /\ BlankAfterTrim(request[c].q)) =>
      /\ received[c] = << >>
      /\ pc[c] # "idle" => (pc[c] = "rejected" /\ raised[c].status = 400)

\* An environment variable that is not set, or set to the empty string.
Unset(value) == value = Absent \/ value = Some(<< >>)

\* The invocation of findBookHours ended by a rejection of the upstream call.
TogglUpstreamFailure == toggl.pc = "failed" /\ toggl.caught # NoTogglError

(***************************************************************************)
(* C24.  An invocation of findBookHours makes at most one upstream call,   *)
(* whatever the call ends with: exactly one once the credentials are       *)
(* there, and none when TOGGL_API_TOKEN or TOGGL_WORKSPACE_ID is unset, in *)
(* which case the invocation fails with InternalServerErrorException.      *)
(***************************************************************************)
C24_SinglePass ==
  /\ Len(toggl.gets) <= 1
  /\ toggl.pc # "idle" =>
       IF Unset(toggl.env.TOGGL_API_TOKEN) \/ Unset(toggl.env.TOGGL_WORKSPACE_ID)
       THEN /\ toggl.pc = "failed"
            /\ toggl.raised.exception = "InternalServerErrorException"
            /\ toggl.gets = << >>
       ELSE Len(toggl.gets) = 1
  /\ TogglUpstreamFailure => ~ENABLED FindBookHours

\* A throttled upstream call, which the invocation does not repeat.
C24_Witness ==
  /\ TogglUpstreamFailure
  /\ toggl.caught.status = 429
  /\ Len(toggl.gets) = 1

(***************************************************************************)
(* C25.  When the upstream call of findBookHours is rejected, the          *)
(* invocation throws UnauthorizedException for an AxiosError of status 401 *)
(* and InternalServerErrorException for every other rejection: statuses    *)
(* 429, 404 and 400, self-signed certificate codes, and anything else.     *)
(***************************************************************************)
C25_TogglClassification ==
  TogglUpstreamFailure =>
    IF toggl.caught.axios /\ toggl.caught.status = 401
    THEN toggl.raised.exception = "UnauthorizedException"
    ELSE toggl.raised.exception = "InternalServerErrorException"

\* A self-signed certificate in the chain surfaces as a server error.
C25_Witness ==
  /\ TogglUpstreamFailure
  /\ toggl.caught.code = "SELF_SIGNED_CERT_IN_CHAIN"
  /\ toggl.caught.status = NoStatus
  /\ toggl.raised.exception = "InternalServerErrorException"
  /\ toggl.raised.message = "Falha na validação SSL ao consultar o Toggl Track."

\* Attempt i of call c failed with an HTTP-client error of the status.
FailedWith(c, i, status) ==
  /\ FailedAttempt(c, i)
  /\ outcomes[c][i].error.axios
  /\ outcomes[c][i].error.status = status

(***************************************************************************)
(* C26.  A call that ends by a failure raises the classification of the    *)
(* failure of its last attempt, whatever the attempts before failed with:  *)
(* 429 then 404 ends in BadRequest (404) after exactly 2 invocations, and  *)
(* 429 three times ends in Overloaded after exactly 3 invocations.  The    *)
(* 404 is one as the HTTP client makes it of a response: it carries no     *)
(* timeout or network code (C5 has the 404 that does).                     *)
(***************************************************************************)
C26_LastFailureDecides ==
  \A c \in Calls :
    /\ EndedByFailure(c)
         => /\ caught[c] = FinalFailure(c)
            /\ raised[c] = handleError(FinalFailure(c))
    /\ (/\ FailedWith(c, 1, 429)
        /\ FailedWith(c, 2, 404)
        /\ outcomes[c][2].error.code \notin {"ECONNABORTED", "ERR_NETWORK"})
         => /\ pc[c] = "failed"
            /\ KindOf(raised[c]) = "BadRequest"
            /\ raised[c].status = 404
            /\ Invocations(c) = 2
    /\ (FailedWith(c, 1, 429) /\ FailedWith(c, 2, 429) /\ FailedWith(c, 3, 429))
         => /\ pc[c] = "failed"
            /\ KindOf(raised[c]) = "Overloaded"
            /\ Invocations(c) = 3

\* Throttled, then not found: BadRequest after two invocations and one wait.
C26_Witness ==
  \E c \in Calls :
    /\ pc[c] = "failed"
    /\ Len(outcomes[c]) = 2
    /\ FailedWith(c, 1, 429)
    /\ FailedWith(c, 2, 404)
    /\ raised[c] = BadRequestException(404)
    /\ Invocations(c) = 2

\* Call d fetched and stored the entry of the key.
Stored(d, key) ==
  pc[d] = "done" /\ sent[d] # << >> /\ cacheKey[d] = key

(***************************************************************************)
(* C27.  A call that ends in failure leaves the cache as it was: the step  *)
(* that fails a call, and every step that issues or ends an attempt        *)
(* without ending the call in success, changes no entry.  A call of the    *)
(* same key as a failed call, when no other call stored that key, finds no *)
(* entry and goes upstream.                                                *)
(***************************************************************************)
C27_FailedCallLeavesCache ==
  /\ [][\A c \in Calls :
          /\ (pc[c] # "failed" /\ pc'[c] = "failed") => cache' = cache
          /\ (outcomes'[c] # outcomes[c] /\ pc'[c] # "done") => cache' = cache
          /\ sent'[c] # sent[c] => cache' = cache]_vars
  /\ [](\A a, b \in Calls :
          (/\ a # b
           /\ pc[a] = "failed"
           /\ pc[b] # "idle"
           /\ cacheKey[b] = cacheKey[a]
           /\ \A d \in Calls \ {b} : ~Stored(d, cacheKey[a]))
            => /\ lookupAge[b] = NoEntry
               /\ Invocations(b) >= 1)

\* A call that failed, and a later call of the same key that fetched and
\* stored its own result.
C27_Witness ==
  \E a, b \in Calls :
    /\ a < b
    /\ pc[a] = "failed"
    /\ cacheKey[b] = cacheKey[a]
    /\ Stored(b, cacheKey[a])
    /\ lookupAge[b] = NoEntry
    /\ cache[cacheKey[a]].data = result[b]

(***************************************************************************)
(* C28.  The step that answers a call from the cache sends nothing         *)
(* upstream and leaves the cache as it is, the timestamp of the entry      *)
(* included: the entry it served was stored less than 60,000 ms before,    *)
(* and is as old after the hit as before.  A call that starts when the     *)
(* entry of its key was stored 60,000 ms before or earlier is not answered *)
(* from it, whether calls were answered from the entry in between or not.  *)
(***************************************************************************)
C28_HitLeavesCache ==
  /\ [][\A c \in Calls :
          /\ (pc[c] = "idle" /\ pc'[c] = "done")
               => /\ cache' = cache
                  /\ sent'[c] = << >>
                  /\ sent' = sent
                  /\ cacheKey'[c] \in DOMAIN cache
                  /\ now - cache'[cacheKey'[c]].timestamp = lookupAge'[c]
                  /\ lookupAge'[c] < 60000
                  /\ result'[c] = cache[cacheKey'[c]].data
          /\ (/\ pc[c] = "idle" /\ pc'[c] # "idle"
              /\ cacheKey'[c] \in DOMAIN cache
              /\ now - cache[cacheKey'[c]].timestamp >= 60000)
               => (pc'[c] = "fetching" /\ Len(sent'[c]) = 1)]_vars
  /\ [](\A c \in Calls : ServedFromCache(c) => Invocations(c) = 0)

\* An entry that served a call when it was 1 ms old and is now 60,000 ms old:
\* its timestamp is the time it was stored, and it is served no more.
C28_Witness ==
  \E c \in Calls :
    /\ ServedFromCache(c)
    /\ lookupAge[c] = 1
    /\ now = 60000
    /\ cache[cacheKey[c]].timestamp = 0
    /\ ~cacheHit(cache, cacheKey[c], now)

\* The last attempt of call d was answered, and d returned its mapping.
ReturnedOwnFetch(d) ==
  /\ outcomes[d] # << >>
  /\ outcomes[d][Len(outcomes[d])].ok
  /\ outcomes[d][Len(outcomes[d])].data # Absent
  /\ result[d] = mapResponse(outcomes[d][Len(outcomes[d])].data[1])
  /\ Len(sent[d]) = Len(outcomes[d])

(***************************************************************************)
(* C29.  Every entry of the cache, under its key k, holds the mapping of   *)
(* an answered upstream request of a call whose query, orderBy, startIndex *)
(* and capped maxResults make up k, and that is what the call sent.  A     *)
(* call that is done returns the mapping of its own fetch, or the value a  *)
(* call of the same four parameters fetched.                               *)
(***************************************************************************)
C29_EntriesBelongToTheirKey ==
  /\ \A k \in DOMAIN cache :
       \E d \in Calls :
         /\ Stored(d, k)
         /\ k = Shape(d)
         /\ ReturnedOwnFetch(d)
         /\ cache[k].data = result[d]
         /\ \A i \in 1..Len(sent[d]) :
              <<sent[d][i].q, sent[d][i].orderBy, sent[d][i].startIndex,
                sent[d][i].maxResults>> = k
  /\ \A c \in Calls :
       pc[c] = "done"
         => IF sent[c] # << >>
            THEN ReturnedOwnFetch(c)
            ELSE \E d \in Calls \ {c} :
                   /\ Stored(d, cacheKey[c])
                   /\ Shape(d) = Shape(c)
                   /\ ReturnedOwnFetch(d)
                   /\ result[c] = result[d]

\* Two calls that asked for 60 results: one fetched the volume under the key
\* of 40, the other was answered from that entry.
C29_Witness ==
  \E c, d \in Calls :
    /\ c # d
    /\ ServedFromCache(c)
    /\ args[c].maxResults = 60
    /\ cacheKey[c] = <<"ddd", "relevance", 0, 40>>
    /\ Stored(d, cacheKey[c])
    /\ Len(result[d].items) = 1
    /\ result[c] = result[d]
    /\ cache[cacheKey[c]].data = result[c]

(***************************************************************************)
(* C30.  The step in which a call ends its fetch in success makes the      *)
(* entry of its key that call's result with the time of that step,         *)
(* whatever entry was there and whichever call started first, and changes  *)
(* no other entry: of two overlapping calls of one key that both succeed,  *)
(* the one that ends last leaves its result and store time in the cache.   *)
(***************************************************************************)
C30_LastStoreWins ==
  [][\A c \in Calls :
       (pc[c] = "fetching" /\ pc'[c] = "done")
         => /\ cacheKey[c] \in DOMAIN cache'
            /\ cache'[cacheKey[c]] = [timestamp |-> now, data |-> result'[c]]
            /\ \A k \in DOMAIN cache \ {cacheKey[c]} :
                 k \in DOMAIN cache' /\ cache'[k] = cache[k]]_vars

\* Call a started first, was throttled once, and ended after call b of the
\* same key had stored another result 1 ms before: the entry is a's.
C30_Witness ==
  \E a, b \in Calls :
    /\ a < b
    /\ cacheKey[a] = cacheKey[b]
    /\ Stored(a, cacheKey[a])
    /\ Stored(b, cacheKey[a])
    /\ lookupAge[a] = NoEntry
    /\ lookupAge[b] = NoEntry
    /\ Invocations(a) = 2
    /\ Invocations(b) = 1
    /\ result[a] # result[b]
    /\ cache[cacheKey[a]] = [timestamp |-> 1, data |-> result[a]]

====
